---- MODULE Spec2Model ----
(***************************************************************************)
(* Model of the extract / transform / load core of the Qualtrics data      *)
(* processor: the relational store (surveys, survey_responses,             *)
(* survey_responses_extraction_log), the data directory, the extraction,   *)
(* transformation and load services and the HTTP handlers that compose     *)
(* them.                                                                   *)
(*                                                                         *)
(* Every service function is an operator returning the SET of outcomes the *)
(* call can have from a given store: one outcome per behaviour of the      *)
(* collaborators (the remote platform answering or failing, a cursor scope *)
(* raising or committing).  An outcome is a record                         *)
(*     [st |-> store after the call, res |-> returned dict, ev |-> events] *)
(* where ev lists, in order, the remote calls and committed writes made.   *)
(* A Python dict is a record (res) or, where order matters, a sequence of  *)
(* <<key, value>> pairs.                                                   *)
(***************************************************************************)
EXTENDS Integers, Sequences, FiniteSets, TLC

VARIABLES
    surveys,      \* table surveys: qualtrics_survey_id -> row
    responses,    \* table survey_responses: survey uuid -> rows, in insertion order
    log,          \* table survey_responses_extraction_log, in insertion order
    files,        \* data directory: set of [survey, ts, content]
    clock,        \* wall clock, in seconds (generate_filename's resolution)
    req,          \* the HTTP request being served, or Idle
    pipeline,     \* full_pipeline's pipeline_result
    out,          \* what the service call / handler returned
    last,         \* the most recent per-survey service call: arguments, store before, outcome
    nreq,         \* requests and direct calls made so far
    nfaults       \* faults of the collaborators so far

vars == <<surveys, responses, log, files, clock, req, pipeline, out, last, nreq, nfaults>>

----------------------------------------------------------------------------
(* Bounds of the model *)

\* requests (or direct calls of the Load Engine) in a behaviour
MaxRequests == 1
\* the largest EXPORT_POLL_MAX_SECONDS a polling loop is configured with
MaxCeiling == 5
\* get_cursor scopes opened one after the other in a behaviour
MaxScopes == 2
\* DB_POOL_MAX_CONN: connections the pool hands out at a time
PoolMax == 1
\* length of a request's survey_ids
MaxIds == 2
\* seconds that pass in a behaviour
MaxClock == 1
\* faults of the store, the remote platform and the file system in a behaviour
MaxFaults == 1
\* rows of a source table handed to the Response Transformation Engine
MaxRows == 4
\* choices of a question handed to the Mapping Derivation Engine
MaxChoices == 2
\* derivations of mappings made one after the other in a behaviour
MaxDerivations == 3

----------------------------------------------------------------------------
(* Python dicts and lists *)

\* d.get(k, default) on a record
Get(d, k, default) == IF k \in DOMAIN d THEN d[k] ELSE default

\* an ordered dict: a sequence of <<key, value>> pairs with distinct keys
DictKeys(d) == {d[i][1] : i \in 1..Len(d)}
DictHas(d, k) == k \in DictKeys(d)
DictGet(d, k, default) ==
    IF DictHas(d, k) THEN d[CHOOSE i \in 1..Len(d) : d[i][1] = k][2] ELSE default
\* d[k] = v: an existing key keeps its position
DictPut(d, k, v) ==
    IF DictHas(d, k)
    THEN [i \in 1..Len(d) |-> IF d[i][1] = k THEN <<k, v>> ELSE d[i]]
    ELSE Append(d, <<k, v>>)

----------------------------------------------------------------------------
(* The data the model draws from *)

\* platform-issued survey identifiers; SV_1 is a substring of SV_12
SurveyIds == {"SV_1", "SV_12"}

\* "*{survey_id}*" of find_latest_csv's glob: survey_id occurs in the file's survey part
Contains(name, sid) == name = sid \/ (sid = "SV_1" /\ name = "SV_12")

\* s.startswith(p), for the tags the model uses
StartsWith(s, p) == p = "Ab_" /\ s \in {"Ab_1", "Ab_2"}

\* str(x) of a JSON scalar [t |-> "str" or "int", v |-> value]
PyStr(x) == IF x.t = "int" THEN ToString(x.v) ELSE x.v

\* the surrogate identifier (surveys.id) of a survey row
UuidOf == [s \in SurveyIds |-> IF s = "SV_1" THEN "uuid-a" ELSE "uuid-b"]
Uuids == {UuidOf[s] : s \in SurveyIds}
OrgOf == [s \in SurveyIds |-> IF s = "SV_1" THEN "org-1" ELSE "org-2"]

\* field_mapping (jsonb, nullable): SQL NULL, JSON null, or a JSON object
FmSqlNull == [k |-> "sqlnull"]
FmJsonNull == [k |-> "jsonnull"]
FmObj(d) == [k |-> "obj", v |-> d]
\* a mapping stored by an earlier run
OldMapping == <<  <<"Gender", << <<"1", "Female">>, <<"2", "Male">> >> >>  >>

AbsentRow == [present |-> FALSE]
Row(s, status, fm, name, stype) ==
    [present |-> TRUE, id |-> UuidOf[s], organisation_id |-> OrgOf[s], status |-> status,
     field_mapping |-> fm, name |-> name, service_type |-> stype]

\* the survey rows a store can hold before the first request
InitialRows(s) ==
    IF s = "SV_1"
    THEN {AbsentRow, Row(s, "inactive", FmSqlNull, "old name", "old type")}
         \cup {Row(s, "active", fm, "old name", "old type") :
                  fm \in {FmSqlNull, FmJsonNull, FmObj(<<>>), FmObj(OldMapping)}}
    ELSE {AbsentRow, Row(s, "active", FmSqlNull, "old name", "old type")}

\* survey-definitions payloads the remote platform can answer with
QuestionsFull ==
    << <<"QID1", [DataExportTag |-> "ServiceType",
                  Choices |-> << <<"1", [t |-> "dict", Display |-> "Inpatient"]>>,
                                 <<"2", [t |-> "dict", Display |-> "Outpatient"]>> >>]>>,
       <<"QID2", [DataExportTag |-> "Facility",
                  Choices |-> << <<"1", [t |-> "dict", Display |-> "North"]>>,
                                 <<"2", [t |-> "str", v |-> "South"]>> >>,
                  RecodeValues |-> << <<"1", [t |-> "int", v |-> 10]>> >>]>>,
       <<"QID3", [DataExportTag |-> "Comment",
                  Choices |-> << <<"1", [t |-> "dict", Display |-> "Yes"]>> >>]>>,
       <<"QID4", [DataExportTag |-> "Ab_1"]>> >>
QuestionsNoise ==
    << <<"QID1", [DataExportTag |-> "Comment",
                  Choices |-> << <<"1", [t |-> "dict", Display |-> "Yes"]>> >>]>>,
       <<"QID2", [QuestionText |-> "no tag"]>> >>
DefinitionPayloads ==
    { [SurveyName |-> "Ward survey", Questions |-> QuestionsFull],
      [SurveyName |-> "Noise survey", Questions |-> QuestionsNoise],
      [SurveyName |-> "Blank survey", Questions |-> <<>>] }

\* an EndDate cell holding a UTC timestamp
Ts(y, mo, d, h) == [t |-> "ts", y |-> y, mo |-> mo, d |-> d, h |-> h]

\* the tabular exports (data frames) the remote platform can produce.  A row is a
\* record column -> cell; the cell NaN is pandas' value of an empty cell.
NaN == [t |-> "nan"]
HeaderRow1 == [EndDate |-> [t |-> "text", v |-> "End Date"], NPS |-> [t |-> "text", v |-> "NPS"],
               Ab_1 |-> [t |-> "text", v |-> "Ab 1"], ResponseId |-> [t |-> "text", v |-> "Response ID"]]
HeaderRow2 == [EndDate |-> [t |-> "text", v |-> "{ImportId:endDate}"], NPS |-> [t |-> "text", v |-> "{ImportId:QID7}"],
               Ab_1 |-> [t |-> "text", v |-> "{ImportId:QID9}"], ResponseId |-> [t |-> "text", v |-> "{ImportId:_recordId}"]]
DataRow(id, end, nps) ==
    [EndDate |-> end, NPS |-> nps, Ab_1 |-> [t |-> "text", v |-> "a"], ResponseId |-> [t |-> "text", v |-> id]]
Frames ==
    [ A |-> <<HeaderRow1, HeaderRow2,
              DataRow("R_1", Ts(2024, 3, 31, 17), [t |-> "num", v |-> 9]),
              DataRow("R_2", Ts(2024, 1, 1, 20), [t |-> "num", v |-> 3])>>,
      B |-> <<HeaderRow1, HeaderRow2,
              DataRow("R_3", Ts(2024, 12, 31, 16), [t |-> "num", v |-> 7]),
              DataRow("R_4", [t |-> "text", v |-> "not a date"], NaN)>>,
      N0 |-> <<>>,
      N1 |-> <<HeaderRow1>>,
      N2 |-> <<HeaderRow1, HeaderRow2>>,
      N3 |-> <<HeaderRow1, HeaderRow2,
               DataRow("R_5", Ts(2024, 2, 29, 16), [t |-> "num", v |-> 10])>> ]
\* the frames the remote platform exports in the model's behaviours
FrameIds == {"A", "B"}

\* downloaded export archives: a zip whose first entry is a CSV of a frame, or bytes
\* that are no zip archive
Archives == {[kind |-> "zip", csv |-> c] : c \in FrameIds} \cup {[kind |-> "corrupt"]}

\* SHA-256, as an injective function of the bytes hashed
Sha256(bytes) == <<"sha256", bytes>>

----------------------------------------------------------------------------
(* The store.  st = [surveys, responses, log, files]; a cursor scope
   (get_cursor) either raises, leaving the store as it was, or runs and
   commits what its body executed. *)

SidOfUuid(u) == CHOOSE s \in SurveyIds : UuidOf[s] = u

Outcome(st, res, ev) == [st |-> st, res |-> res, ev |-> ev]

\* the events that are faults of a collaborator: the store, the remote platform
\* or the file system raising or failing
FaultEvents ==
    {"fault:get_survey_uuid", "fault:has_existing_mappings", "fault:update_survey",
     "fault:clear_survey_responses", "fault:insert_survey_responses",
     "fault:start_export", "fault:export_raised", "fault:export_failed", "fault:export_timeout",
     "fault:download", "fault:bad_archive", "fault:write_file", "fault:file_removed",
     "fault:log_insert", "fault:has_existing_field_mapping", "fault:get_survey_questions",
     "fault:get_all_survey_ids", "fault:duplicate_check", "fault:read_csv"}
IsFault(e) == e \in FaultEvents
NFaults(ev) == Cardinality({i \in 1..Len(ev) : IsFault(ev[i])})

----------------------------------------------------------------------------
(* Load Engine: src/app/services/load_service.py *)

\* _get_survey_uuid_by_qualtrics_id: raises, or returns the row's id, or None
GetSurveyUuidByQualtricsId(st, sid) ==
    {[raised |-> TRUE, ev |-> <<"fault:get_survey_uuid">>]}
    \cup {[raised |-> FALSE, found |-> st.surveys[sid].present,
           uuid |-> IF st.surveys[sid].present THEN st.surveys[sid].id ELSE "None",
           ev |-> <<>>]}

\* a variant of HasMappingsRow that finds no mapping in any row
HasMappingsRowNever(row) == FALSE

\* the WHERE clause of _has_existing_mappings:
\* field_mapping IS NOT NULL AND field_mapping != '{}'::jsonb
HasMappingsRow(row) ==
    row.present /\ row.field_mapping # FmSqlNull /\ row.field_mapping # FmObj(<<>>)

\* _has_existing_mappings: raises, or tells whether the query returned a row
HasExistingMappings(st, uuid) ==
    {[raised |-> TRUE, ev |-> <<"fault:has_existing_mappings">>]}
    \cup {[raised |-> FALSE, val |-> HasMappingsRow(st.surveys[SidOfUuid(uuid)]), ev |-> <<>>]}

\* a variant of UpdatedRow that leaves name and service_type as they were
UpdatedRowMappingOnly(row, mappings_data) ==
    [row EXCEPT !.field_mapping = FmObj(Get(mappings_data, "mappings", <<>>))]

\* a variant of UpdatedRow that also marks the survey inactive
UpdatedRowAndStatus(row, mappings_data) ==
    [row EXCEPT !.field_mapping = FmObj(Get(mappings_data, "mappings", <<>>)),
                !.name = Get(mappings_data, "survey_name", ""),
                !.service_type = DictGet(Get(mappings_data, "key_fields", <<>>), "ServiceType", ""),
                !.status = "inactive"]

\* the row after UPDATE surveys SET field_mapping, name, service_type
UpdatedRow(row, mappings_data) ==
    LET field_mappings == Get(mappings_data, "mappings", <<>>)
        key_fields == Get(mappings_data, "key_fields", <<>>)
        survey_name == Get(mappings_data, "survey_name", "")
        service_type == DictGet(key_fields, "ServiceType", "")
    IN [row EXCEPT !.field_mapping = FmObj(field_mappings),
                   !.name = survey_name,
                   !.service_type = service_type]

\* _update_survey_mappings: True with the row updated, or False with nothing written
UpdateSurveyMappings(st, uuid, mappings_data) ==
    LET sid == SidOfUuid(uuid) IN
    { Outcome([st EXCEPT !.surveys[sid] = UpdatedRow(st.surveys[sid], mappings_data)],
              TRUE, <<"update_survey">>),
      Outcome(st, FALSE, <<"fault:update_survey">>) }

MappingCounts(mappings_data) ==
    [mappings_count |-> Len(Get(mappings_data, "mappings", <<>>)),
     key_fields_count |-> Len(Get(mappings_data, "key_fields", <<>>))]

\* load_survey_mappings(survey_id, mappings_data, force_update)
LoadSurveyMappings(st, sid, mappings_data, force_update) ==
    LET failed(ev) == Outcome(st, [success |-> FALSE, error |-> "exception", action |-> "failed"], ev)
        counts == MappingCounts(mappings_data)
        write(uuid, ev) ==
            { IF o.res
              THEN Outcome(o.st, [success |-> TRUE,
                                  action |-> IF force_update THEN "updated" ELSE "created",
                                  mappings_count |-> counts.mappings_count,
                                  key_fields_count |-> counts.key_fields_count], ev \o o.ev)
              ELSE Outcome(o.st, [success |-> FALSE,
                                  error |-> "Failed to update mappings in database",
                                  action |-> "failed"], ev \o o.ev)
              : o \in UpdateSurveyMappings(st, uuid, mappings_data) }
        checked(uuid) ==
            IF force_update THEN write(uuid, <<>>)
            ELSE UNION { IF h.raised THEN {failed(h.ev)}
                         ELSE IF h.val
                         THEN {Outcome(st, [success |-> TRUE, action |-> "skipped",
                                            reason |-> "mappings_already_exist",
                                            mappings_count |-> counts.mappings_count,
                                            key_fields_count |-> counts.key_fields_count], h.ev)}
                         ELSE write(uuid, h.ev)
                         : h \in HasExistingMappings(st, uuid) }
    IN UNION { IF u.raised THEN {failed(u.ev)}
               ELSE IF ~u.found
               THEN {Outcome(st, [success |-> FALSE, error |-> "not found in database",
                                  action |-> "skipped"], u.ev)}
               ELSE checked(u.uuid)
               : u \in GetSurveyUuidByQualtricsId(st, sid) }

\* check_survey_mappings_exist: False when the survey is absent or a lookup raises
CheckSurveyMappingsExist(st, sid) ==
    UNION { IF u.raised \/ ~u.found THEN {[val |-> FALSE, ev |-> u.ev]}
            ELSE {[val |-> IF h.raised THEN FALSE ELSE h.val, ev |-> h.ev]
                  : h \in HasExistingMappings(st, u.uuid)}
            : u \in GetSurveyUuidByQualtricsId(st, sid) }

\* the calendar
DaysInMonth(y, mo) ==
    IF mo = 2 THEN (IF (y % 4 = 0 /\ y % 100 # 0) \/ y % 400 = 0 THEN 29 ELSE 28)
    ELSE IF mo \in {4, 6, 9, 11} THEN 30 ELSE 31

\* a variant of PlusEightHours that moves the hour and keeps the UTC date
PlusEightHoursSameDay(ts) == [ts EXCEPT !.h = (ts.h + 8) % 24]

\* utc_dt + timedelta(hours=8)
PlusEightHours(ts) ==
    LET h == ts.h + 8
        d == IF h >= 24 THEN ts.d + 1 ELSE ts.d
        mo == IF d > DaysInMonth(ts.y, ts.mo) THEN ts.mo + 1 ELSE ts.mo
    IN [t |-> "ts",
        y |-> IF mo > 12 THEN ts.y + 1 ELSE ts.y,
        mo |-> IF mo > 12 THEN 1 ELSE mo,
        d |-> IF d > DaysInMonth(ts.y, ts.mo) THEN 1 ELSE d,
        h |-> h % 24]

NoneCell == [t |-> "none"]

\* the row _insert_survey_responses builds for one response: submitted_at and the
\* period stay None unless EndDate is present, truthy and parses
ResponseRow(uuid, response) ==
    LET end == Get(response, "EndDate", NoneCell)
        parses == end.t = "ts"
        perth_dt == PlusEightHours(end)
    IN [survey_id |-> uuid,
        submitted_at |-> IF parses THEN end ELSE NoneCell,
        period_year |-> IF parses THEN [t |-> "num", v |-> perth_dt.y] ELSE NoneCell,
        period_month |-> IF parses THEN [t |-> "num", v |-> perth_dt.mo] ELSE NoneCell,
        response_data |-> response]

\* cursor.execute(insert_query, ...) for one response: json.dumps writes an empty
\* cell as NaN, which the store rejects as jsonb; the failed statement aborts the
\* transaction
ExecuteInsert(response) ==
    IF \E c \in DOMAIN response : response[c] = NaN THEN "error" ELSE "ok"

RECURSIVE InsertLoop(_, _, _, _, _, _)
\* the for loop of _insert_survey_responses: a row whose execute raises is skipped;
\* in an aborted transaction every later execute raises as well
InsertLoop(uuid, data, idx, pending, inserted_count, aborted) ==
    IF idx > Len(data)
    THEN [pending |-> pending, inserted_count |-> inserted_count, aborted |-> aborted]
    ELSE IF aborted
    THEN InsertLoop(uuid, data, idx + 1, pending, inserted_count, TRUE)
    ELSE IF ExecuteInsert(data[idx]) = "error"
    THEN InsertLoop(uuid, data, idx + 1, pending, inserted_count, TRUE)
    ELSE InsertLoop(uuid, data, idx + 1, Append(pending, ResponseRow(uuid, data[idx])),
                    inserted_count + 1, FALSE)

\* _clear_survey_responses: raises, or deletes the survey's rows and commits
ClearSurveyResponses(st, uuid) ==
    {[raised |-> TRUE, st |-> st, ev |-> <<"fault:clear_survey_responses">>]}
    \cup {[raised |-> FALSE, st |-> [st EXCEPT !.responses[uuid] = <<>>],
           val |-> Len(st.responses[uuid]), ev |-> <<"delete_responses">>]}

\* _insert_survey_responses: 0 without a cursor when there is nothing to insert;
\* else the scope raises, or the loop runs and the scope commits (the commit of an
\* aborted transaction persists nothing and does not raise)
InsertSurveyResponses(st, uuid, responses_data) ==
    IF Len(responses_data) = 0
    THEN {[raised |-> FALSE, st |-> st, val |-> 0, ev |-> <<>>]}
    ELSE LET r == InsertLoop(uuid, responses_data, 1, <<>>, 0, FALSE)
             persisted == IF r.aborted THEN <<>> ELSE r.pending
         IN {[raised |-> TRUE, st |-> st, ev |-> <<"fault:insert_survey_responses">>]}
            \cup {[raised |-> FALSE,
                   st |-> [st EXCEPT !.responses[uuid] = st.responses[uuid] \o persisted],
                   val |-> r.inserted_count,
                   ev |-> IF r.aborted THEN <<"rollback">> ELSE <<"insert_responses">>]}

\* load_survey_responses(survey_id, responses_data, replace_existing)
LoadSurveyResponses(st, sid, responses_data, replace_existing) ==
    LET failed(s, ev) == Outcome(s, [success |-> FALSE, error |-> "exception"], ev)
        insert(s, uuid, deleted_count, ev) ==
            { IF i.raised THEN failed(i.st, ev \o i.ev)
              ELSE Outcome(i.st, [success |-> TRUE, deleted_count |-> deleted_count,
                                  inserted_count |-> i.val,
                                  total_input_records |-> Len(responses_data)], ev \o i.ev)
              : i \in InsertSurveyResponses(s, uuid, responses_data) }
    IN UNION { IF u.raised THEN {failed(st, u.ev)}
               ELSE IF ~u.found
               THEN {Outcome(st, [success |-> FALSE, error |-> "not found in database"], u.ev)}
               ELSE IF ~replace_existing THEN insert(st, u.uuid, 0, <<>>)
               ELSE UNION { IF c.raised THEN {failed(c.st, c.ev)}
                            ELSE insert(c.st, u.uuid, c.val, c.ev)
                            : c \in ClearSurveyResponses(st, u.uuid) }
               : u \in GetSurveyUuidByQualtricsId(st, sid) }

----------------------------------------------------------------------------
(* Mapping Derivation Engine: src/app/services/transform_service.py *)

allowed_keys_dict == {"ServiceType", "Facility", "Satisfaction", "Gender", "ParticipantType"}
allowed_prefixes == {"Ab_"}
response_key_fields == <<"Facility", "Satisfaction", "EndDate", "NPS", "NPS_NPS_GROUP", "Gender", "ParticipantType">>
key_fields_prefixes == {"Ab_"}

\* the display label of one choice: choice["Display"] of a dict, str() of a scalar
DisplayOf(choice_value) ==
    IF choice_value.t = "dict" THEN Get(choice_value, "Display", "") ELSE PyStr(choice_value)

RECURSIVE FirstDisplay(_, _)
\* the fallback loop: the first non-empty display label in iteration order
FirstDisplay(choices, i) ==
    IF i > Len(choices) THEN (IF Len(choices) = 0 THEN "" ELSE DisplayOf(choices[Len(choices)][2]))
    ELSE IF DisplayOf(choices[i][2]) # "" THEN DisplayOf(choices[i][2])
    ELSE FirstDisplay(choices, i + 1)

\* a variant of ServiceTypeName that takes the first choice whatever its key
ServiceTypeNameFirst(choices) == FirstDisplay(choices, 1)

\* the service-type label: choice "1" when it has a label, else the fallback
ServiceTypeName(choices) ==
    LET first == IF DictHas(choices, "1") THEN DisplayOf(DictGet(choices, "1", NoneCell)) ELSE ""
    IN IF first # "" THEN first ELSE FirstDisplay(choices, 1)

RECURSIVE InnerMappingByChoiceKey(_, _, _, _)
\* a variant of InnerMapping that never consults the recode table
InnerMappingByChoiceKey(choices, recode_values, i, inner_mapping) ==
    IF i > Len(choices) THEN inner_mapping
    ELSE InnerMappingByChoiceKey(choices, recode_values, i + 1,
            DictPut(inner_mapping, choices[i][1], DisplayOf(choices[i][2])))

RECURSIVE InnerMapping(_, _, _, _)
\* the loop over choices.items(): the recode value of the choice when
\* recode_values.get(choice_key) is not None, else the choice key, stringified,
\* maps to the display label
InnerMapping(choices, recode_values, i, inner_mapping) ==
    IF i > Len(choices) THEN inner_mapping
    ELSE LET choice_key == choices[i][1]
             display == DisplayOf(choices[i][2])
             recode_val == DictGet(recode_values, choice_key, NoneCell)
             mapping_key == IF recode_val.t # "none" THEN PyStr(recode_val) ELSE choice_key
         IN InnerMapping(choices, recode_values, i + 1, DictPut(inner_mapping, mapping_key, display))

RECURSIVE ExtractMappingsLoop(_, _, _)
\* the loop over questions.values()
ExtractMappingsLoop(questions, i, transformed_fields) ==
    IF i > Len(questions) THEN transformed_fields
    ELSE LET question == questions[i][2]
             outer_key == Get(question, "DataExportTag", "")
             choices == Get(question, "Choices", <<>>)
             next(tf) == ExtractMappingsLoop(questions, i + 1, tf)
             inner_mapping == InnerMapping(choices, Get(question, "RecodeValues", <<>>), 1, <<>>)
         IN IF outer_key = "" THEN next(transformed_fields)
            ELSE IF outer_key \notin allowed_keys_dict
                    /\ ~\E p \in allowed_prefixes : StartsWith(outer_key, p)
            THEN next(transformed_fields)
            ELSE IF Len(choices) = 0 THEN next(transformed_fields)
            ELSE IF outer_key = "ServiceType"
            THEN next([transformed_fields EXCEPT
                         !.key_fields = DictPut(@, outer_key, ServiceTypeName(choices))])
            ELSE IF Len(inner_mapping) = 0 THEN next(transformed_fields)
            ELSE next([transformed_fields EXCEPT
                         !.mappings = DictPut(@, outer_key, inner_mapping)])

\* a variant of ExtractMappingsFromQuestions that keeps transformed_fields from one
\* call to the next
ExtractMappingsAccumulating(questions) ==
    LET derived == Get(out, "derived", <<>>)
    IN ExtractMappingsLoop(questions, 1,
                           IF Len(derived) = 0 THEN [key_fields |-> <<>>, mappings |-> <<>>]
                           ELSE derived[Len(derived)].res)

\* _extract_mappings_from_questions
ExtractMappingsFromQuestions(questions) ==
    ExtractMappingsLoop(questions, 1, [key_fields |-> <<>>, mappings |-> <<>>])

\* transform_survey_mappings(survey_id, survey_name, questions)
TransformSurveyMappings(sid, survey_name, questions) ==
    IF Len(questions) = 0
    THEN [success |-> TRUE, survey_id |-> sid, action |-> "skipped",
          reason |-> "no_questions_provided",
          mappings_data |-> [survey_name |-> survey_name, mappings |-> <<>>, key_fields |-> <<>>],
          mappings_count |-> 0, key_fields_count |-> 0]
    ELSE LET d == ExtractMappingsFromQuestions(questions)
             mappings_data == [survey_name |-> survey_name, mappings |-> d.mappings,
                               key_fields |-> d.key_fields]
         IN [success |-> TRUE, survey_id |-> sid, mappings_data |-> mappings_data,
             mappings_count |-> Len(d.mappings), key_fields_count |-> Len(d.key_fields)]


----------------------------------------------------------------------------
(* Extraction Orchestrator: src/app/services/extract_service.py *)

\* the polling configuration, in seconds (read from the environment)
EXPORT_POLL_MAX_SECONDS == 5
EXPORT_POLL_INTERVAL == 2

\* what one status check can give: a reply of the platform, or a request error
StatusReplies ==
    {[status |-> "inProgress"], [status |-> "failed"], [status |-> "error"], [status |-> "raise"],
     [status |-> "complete", fileId |-> "file-1"], [status |-> "complete", fileId |-> "file-2"]}

\* the status checks a wait can make before the ceiling, and the reply scripts
\* that differ within them
MaxChecks == (EXPORT_POLL_MAX_SECONDS + EXPORT_POLL_INTERVAL - 1) \div EXPORT_POLL_INTERVAL
ReplyScripts == [1..MaxChecks -> StatusReplies]

RECURSIVE WaitLoop(_, _, _)
\* the while loop of _wait_for_export_completion over a script of replies
WaitLoop(replies, waited, checks) ==
    IF ~(waited < EXPORT_POLL_MAX_SECONDS)
    THEN [end |-> "timeout", checks |-> checks]
    ELSE LET result == replies[checks + 1] IN
         IF result.status = "raise" THEN [end |-> "raised", checks |-> checks + 1]
         ELSE IF result.status = "complete"
         THEN [end |-> "complete", fileId |-> result.fileId, checks |-> checks + 1]
         ELSE IF result.status \in {"failed", "error"}
         THEN [end |-> "failed", checks |-> checks + 1]
         ELSE WaitLoop(replies, waited + EXPORT_POLL_INTERVAL, checks + 1)

\* _wait_for_export_completion
WaitForExportCompletion(replies) == WaitLoop(replies, 0, 0)

\* a variant of Checks in which every status check is made twice
ChecksTwice(n) == [i \in 1..(2 * n) |-> "check_status"]

\* the status checks of a wait that got n replies
Checks(n) == [i \in 1..n |-> "check_status"]

\* a variant of DownloadFileId that asks for the first file of the export
DownloadFirstFile(w) == "file-1"

\* the file id _download_export_file is called with: the one the wait returned
DownloadFileId(w) == w.fileId

\* _execute_full_export: start, wait, download; any failure is re-raised.  remote
\* is what passed between the service and the platform: the replies of the status
\* checks made, and the file id the download asked for (if it was made)
ExecuteFullExport ==
    {[raised |-> TRUE, ev |-> <<"start_export", "fault:start_export">>,
      remote |-> [replies |-> <<>>, file_id |-> "none"]]}
    \cup UNION { LET w == WaitForExportCompletion(replies)
                     ev == <<"start_export">> \o Checks(w.checks)
                     polled == SubSeq(replies, 1, w.checks)
                     remote == [replies |-> polled, file_id |-> DownloadFileId(w)]
                 IN IF w.end # "complete"
                    THEN {[raised |-> TRUE,
                            ev |-> Append(ev, IF w.end = "timeout" THEN "fault:export_timeout"
                                              ELSE IF w.end = "raised" THEN "fault:export_raised"
                                              ELSE "fault:export_failed"),
                            remote |-> [replies |-> polled, file_id |-> "none"]]}
                    ELSE {[raised |-> TRUE, ev |-> ev \o <<"download", "fault:download">>,
                           remote |-> remote]}
                         \cup {[raised |-> FALSE, file_content |-> a, fileId |-> w.fileId,
                                ev |-> Append(ev, "download"), remote |-> remote]
                               : a \in Archives}
                 : replies \in ReplyScripts }

\* the bytes df.to_csv writes for a frame
CsvBytes(frame) == [kind |-> "csv", frame |-> frame]

\* generate_filename(survey_id) at a second of the clock
FileName(sid, ts) == [survey |-> sid, ts |-> ts]

\* the directory after a file is written under a name (an existing one is replaced)
WriteFile(fs, name, content) ==
    {f \in fs : f.name # name} \cup {[name |-> name, content |-> content]}

\* a variant of LogResponsesExtractionResult that hashes the name of the file
LogHashOfName(st, sid, file_name) ==
    LET entry == [survey_id |-> sid, file_name |-> file_name,
                  file_hash |-> Sha256(file_name), extracted_at |-> Len(st.log) + 1]
    IN {[st |-> st, ev |-> <<"fault:log_insert">>]}
       \cup (IF \E f \in st.files : f.name = file_name
             THEN {[st |-> [st EXCEPT !.log = Append(@, entry)], ev |-> <<"log_insert">>]}
             ELSE {[st |-> st, ev |-> <<>>]})

\* a variant of LogResponsesExtractionResult that keeps one entry for a survey:
\* the entry replaces the ones the survey had
LogLatestOnly(st, sid, file_name) ==
    LET here == {f \in st.files : f.name = file_name}
        file == CHOOSE f \in here : TRUE
        entry == [survey_id |-> sid, file_name |-> file_name,
                  file_hash |-> Sha256(file.content), extracted_at |-> Len(st.log) + 1]
        others == SelectSeq(st.log, LAMBDA e : e.survey_id # sid)
    IN {[st |-> st, ev |-> <<"fault:log_insert">>]}
       \cup (IF here = {} THEN {[st |-> st, ev |-> <<>>]}
             ELSE {[st |-> [st EXCEPT !.log = Append(others, entry)], ev |-> <<"log_insert">>]})

\* a variant of LogResponsesExtractionResult that never writes an entry
LogNothing(st, sid, file_name) == {[st |-> st, ev |-> <<>>]}

\* _log_responses_extraction_result(success=True): nothing is logged when the cursor
\* scope raises or the file is not there; else one entry is appended
LogResponsesExtractionResult(st, sid, file_name) ==
    LET here == {f \in st.files : f.name = file_name}
        file == CHOOSE f \in here : TRUE
        entry == [survey_id |-> sid, file_name |-> file_name,
                  file_hash |-> Sha256(file.content), extracted_at |-> Len(st.log) + 1]
    IN {[st |-> st, ev |-> <<"fault:log_insert">>]}
       \cup (IF here = {} THEN {[st |-> st, ev |-> <<>>]}
             ELSE {[st |-> [st EXCEPT !.log = Append(@, entry)], ev |-> <<"log_insert">>]})

\* extract_survey_responses(survey_id), called at time now; an outcome carries
\* what passed between the service and the platform (remote) and, when it got as
\* far as saving the table, the bytes that were downloaded (file_content)
ExtractSurveyResponses(st, sid, now) ==
    LET file_name == FileName(sid, now)
        failed(x, ev) == [st |-> st, ev |-> ev, remote |-> x.remote,
                          res |-> [success |-> FALSE, error |-> "Failed to extract survey responses"]]
        saved(x) ==
            LET written == [st EXCEPT !.files = WriteFile(@, file_name, CsvBytes(x.file_content.csv))]
                gone == [st EXCEPT !.files = {f \in @ : f.name # file_name}]
                res == [success |-> TRUE, file_name |-> file_name,
                        records_count |-> Len(Frames[x.file_content.csv])]
                done(l, ev) == [st |-> l.st, res |-> res, ev |-> ev \o l.ev,
                                file_content |-> x.file_content, remote |-> x.remote]
            IN {failed(x, Append(x.ev, "fault:write_file"))}
               \cup { done(l, x.ev \o <<"write_file">>)
                      : l \in LogResponsesExtractionResult(written, sid, file_name) }
               \cup { done(l, x.ev \o <<"write_file", "fault:file_removed">>)
                      : l \in LogResponsesExtractionResult(gone, sid, file_name) }
    IN UNION { IF x.raised THEN {failed(x, x.ev)}
               ELSE IF x.file_content.kind # "zip" THEN {failed(x, Append(x.ev, "fault:bad_archive"))}
               ELSE saved(x)
               : x \in ExecuteFullExport }

\* a variant of HasFieldMappingRow that tests IS NOT NULL only
HasFieldMappingRowNotNull(row) == row.present /\ row.field_mapping # FmSqlNull

\* the WHERE clause of _has_existing_field_mapping: field_mapping IS NOT NULL
\* AND field_mapping != '{}'::jsonb AND field_mapping != 'null'::jsonb
HasFieldMappingRow(row) ==
    row.present /\ row.field_mapping # FmSqlNull /\ row.field_mapping # FmObj(<<>>)
                /\ row.field_mapping # FmJsonNull

\* _has_existing_field_mapping: False when the query raises
HasExistingFieldMapping(st, sid) ==
    {[val |-> FALSE, ev |-> <<"fault:has_existing_field_mapping">>],
     [val |-> HasFieldMappingRow(st.surveys[sid]), ev |-> <<>>]}

\* the definitions the remote platform can return for a survey
RemoteDefinitions == {p \in DefinitionPayloads : p.SurveyName # "Noise survey"}

\* extract_survey_definitions(survey_id)
ExtractSurveyDefinitions(st, sid) ==
    UNION { IF has.val
            THEN {Outcome(st, [success |-> TRUE, action |-> "skipped",
                               reason |-> "field_mapping_already_exists",
                               questions_count |-> 0], has.ev)}
            ELSE {Outcome(st, [success |-> FALSE, action |-> "failed",
                               error |-> "Failed to extract survey definitions"],
                          has.ev \o <<"get_survey_questions", "fault:get_survey_questions">>)}
                 \cup {Outcome(st, [success |-> TRUE, action |-> "extracted",
                                    survey_name |-> Get(survey_data, "SurveyName", ""),
                                    questions |-> Get(survey_data, "Questions", <<>>),
                                    questions_count |-> Len(Get(survey_data, "Questions", <<>>))],
                               Append(has.ev, "get_survey_questions"))
                       : survey_data \in RemoteDefinitions}
            : has \in HasExistingFieldMapping(st, sid) }

\* the active ids (of the organisation, when one is given)
ActiveIds(st, organisation_id) ==
    {s \in SurveyIds : /\ st.surveys[s].present
                       /\ st.surveys[s].status = "active"
                       /\ (organisation_id # "None" => st.surveys[s].organisation_id = organisation_id)}

\* ORDER BY qualtrics_survey_id over the model's identifiers
SortIds(S) ==
    (IF "SV_1" \in S THEN <<"SV_1">> ELSE <<>>) \o (IF "SV_12" \in S THEN <<"SV_12">> ELSE <<>>)

\* _get_all_survey_ids_from_db: raises, or the active ids in ascending order
GetAllSurveyIdsFromDb(st, organisation_id) ==
    {[raised |-> TRUE, ev |-> <<"fault:get_all_survey_ids">>]}
    \cup {[raised |-> FALSE, val |-> SortIds(ActiveIds(st, organisation_id)), ev |-> <<>>]}

----------------------------------------------------------------------------
(* Response Transformation Engine and Pipeline Coordinator:
   src/app/services/transform_service.py, src/app/utils/file_utils.py *)

\* find_latest_csv: the files whose name matches *{survey_id}*.csv, and of these one
\* with the maximal timestamp (any of them when several share it)
FindLatestCsv(fs, sid) ==
    LET candidates == {f \in fs : Contains(f.name.survey, sid)}
    IN {f \in candidates : \A g \in candidates : g.name.ts <= f.name.ts}

\* SELECT file_hash ... WHERE survey_id = %s ORDER BY extracted_at DESC LIMIT 2
LatestTwo(lg, sid) ==
    LET mine == SelectSeq(lg, LAMBDA e : e.survey_id = sid)
        n == Len(mine)
    IN IF n = 0 THEN <<>> ELSE IF n = 1 THEN <<mine[1]>> ELSE <<mine[n], mine[n - 1]>>

\* a variant of IsDuplicateRows that never reports a duplicate
IsDuplicateRowsNever(rows) == [is_duplicate |-> FALSE]

\* what _is_latest_duplicate_download decides from the rows it fetched
IsDuplicateRows(rows) ==
    IF Len(rows) < 2 THEN [is_duplicate |-> FALSE]
    ELSE IF rows[1].file_hash = rows[2].file_hash
    THEN [is_duplicate |-> TRUE, latest_hash |-> rows[1].file_hash]
    ELSE [is_duplicate |-> FALSE]

\* _is_latest_duplicate_download: not a duplicate when the query raises
IsLatestDuplicateDownload(st, sid) ==
    {[val |-> [is_duplicate |-> FALSE], ev |-> <<"fault:duplicate_check">>],
     [val |-> IsDuplicateRows(LatestTwo(st.log, sid)), ev |-> <<>>]}

\* the columns _transform_responses_data keeps, of those present
AvailableCols(columns) ==
    {c \in columns : \/ \E i \in 1..Len(response_key_fields) : response_key_fields[i] = c
                     \/ \E p \in key_fields_prefixes : StartsWith(c, p)}

\* a variant of TransformResponsesData that drops the first row only
TransformResponsesDataDropOne(df) ==
    LET selected == [i \in 1..Len(df) |-> [c \in AvailableCols(DOMAIN df[i]) |-> df[i][c]]]
    IN IF Len(selected) <= 1 THEN <<>> ELSE SubSeq(selected, 2, Len(selected))

\* _transform_responses_data: the selected columns of the rows after the first two
TransformResponsesData(df) ==
    LET selected == [i \in 1..Len(df) |-> [c \in AvailableCols(DOMAIN df[i]) |-> df[i][c]]]
    IN IF Len(selected) <= 2 THEN <<>> ELSE SubSeq(selected, 3, Len(selected))

\* transform_survey_responses(survey_id); the store is only read; an outcome that
\* read a file carries its name (csv_file)
TransformSurveyResponses(st, sid) ==
    LET error(ev) == Outcome(st, [success |-> FALSE, error |-> "Failed to transform responses"], ev)
        not_found(ev) == Outcome(st, [success |-> FALSE, error |-> "CSV file not found"], ev)
        transform(csv_file, ev) ==
            LET df_responses == Frames[csv_file.content.frame]
                responses_data == TransformResponsesData(df_responses)
            IN [st |-> st, ev |-> Append(ev, "read_csv"), csv_file |-> csv_file.name,
                res |-> [success |-> TRUE, survey_id |-> sid,
                         transformed_count |-> Len(responses_data),
                         responses_data |-> responses_data,
                         total_records_in_csv |-> Len(df_responses)]]
    IN UNION { IF dup_check.val.is_duplicate
               THEN {Outcome(st, [success |-> TRUE, survey_id |-> sid, action |-> "skipped_duplicate",
                                  reason |-> "latest_two_file_hash_equal", transformed_count |-> 0,
                                  responses_data |-> <<>>, total_records_in_csv |-> 0,
                                  hash |-> dup_check.val.latest_hash], dup_check.ev)}
               ELSE IF FindLatestCsv(st.files, sid) = {} THEN {not_found(dup_check.ev)}
               ELSE {error(dup_check.ev \o <<"read_csv", "fault:read_csv">>)}
                    \cup {transform(f, dup_check.ev) : f \in FindLatestCsv(st.files, sid)}
               : dup_check \in IsLatestDuplicateDownload(st, sid) }

\* {**a, **b}
Merge(a, b) == [k \in DOMAIN a \cup DOMAIN b |-> IF k \in DOMAIN b THEN b[k] ELSE a[k]]

\* _process_survey_responses(survey_id)
ProcessSurveyResponses(st, sid) ==
    UNION { IF ~t.res.success THEN {t}
            ELSE IF Get(t.res, "action", "") = "skipped_duplicate" THEN {t}
            ELSE { Outcome(l.st, Merge(t.res, l.res), (t.ev \o <<"load_survey_responses">>) \o l.ev)
                   : l \in LoadSurveyResponses(st, sid, t.res.responses_data, TRUE) }
            : t \in TransformSurveyResponses(st, sid) }

\* _process_survey_mappings(survey_id, force_update); an outcome that got as far as
\* transform_survey_mappings carries what that returned (transform_result)
ProcessSurveyMappings(st, sid, force_update) ==
    LET derive(q, ev) ==
            LET transform_result ==
                    TransformSurveyMappings(sid, Get(q.res, "survey_name", ""),
                                            Get(q.res, "questions", <<>>))
            IN { [st |-> l.st, res |-> l.res,
                  ev |-> ((ev \o q.ev) \o <<"load_survey_mappings">>) \o l.ev,
                  transform_result |-> transform_result]
                 : l \in LoadSurveyMappings(st, sid, transform_result.mappings_data, force_update) }
        extract(ev) ==
            UNION { IF ~q.res.success
                    THEN {Outcome(st, [success |-> FALSE, error |-> "Failed to extract questions"],
                                  ev \o q.ev)}
                    ELSE IF q.res.action = "skipped"
                    THEN {Outcome(st, [success |-> TRUE, action |-> "skipped",
                                       reason |-> "questions_already_exist"], ev \o q.ev)}
                    ELSE derive(q, ev)
                    : q \in ExtractSurveyDefinitions(st, sid) }
    IN IF force_update THEN extract(<<>>)
       ELSE UNION { IF exist.val
                    THEN {Outcome(st, [success |-> TRUE, action |-> "skipped",
                                       reason |-> "mappings_already_exist"], exist.ev)}
                    ELSE extract(exist.ev)
                    : exist \in CheckSurveyMappingsExist(st, sid) }

----------------------------------------------------------------------------
(* Batch operations and HTTP handlers: src/app/api/routes.py and the batch
   methods of the two services.  A handler runs its loop one survey per step. *)

St == [surveys |-> surveys, responses |-> responses, log |-> log, files |-> files]

SetStore(st) ==
    /\ surveys' = st.surveys
    /\ responses' = st.responses
    /\ log' = st.log
    /\ files' = st.files

\* no request yet
Idle == [op |-> "idle", pc |-> "done"]
NoCall == [fn |-> "none"]
NoResponse == [status |-> 0]
NoPipeline == [unset |-> TRUE]

\* survey_ids of a request body: absent (None) or a list of identifiers
IdLists == UNION {[1..n -> SurveyIds] : n \in 0..MaxIds}

\* the keys of a per-survey result that the batch methods, the handlers and the
\* properties read; the details of a batch keep these keys of each result
DetailKeys == {"success", "action", "error", "reason", "overall_success", "mappings", "responses"}
Detail(result) == [k \in DOMAIN result \cap DetailKeys |-> result[k]]

\* a variant of Put that keeps only the results of the surveys that succeeded
PutSuccessOnly(results, sid, result) ==
    IF Get(result, "success", Get(result, "overall_success", FALSE))
    THEN [k \in DOMAIN results \cup {sid} |-> IF k = sid THEN result ELSE results[k]]
    ELSE results

\* results[survey_id] = result
Put(results, sid, result) ==
    [k \in DOMAIN results \cup {sid} |-> IF k = sid THEN result ELSE results[k]]

\* sum(1 for result in results.values() if result[key])
CountTrue(results, key) == Cardinality({k \in DOMAIN results : results[k][key]})
\* sum(1 for result in results.values() if result.get("action") == action)
CountAction(results, action) ==
    Cardinality({k \in DOMAIN results : Get(results[k], "action", "") = action})

\* a variant of ExtractAggregate that counts the failed results instead of
\* subtracting
ExtractAggregateCounting(survey_ids, results) ==
    [success |-> TRUE,
     data |-> [total_surveys |-> Len(survey_ids),
               successful_extractions |-> CountTrue(results, "success"),
               failed_extractions |-> Cardinality({k \in DOMAIN results : ~results[k].success}),
               details |-> results, survey_ids |-> survey_ids]]

\* the aggregate of extract_all_surveys and extract_specific_surveys
ExtractAggregate(survey_ids, results) ==
    LET successful == CountTrue(results, "success")
        total == Len(survey_ids)
    IN [success |-> TRUE,
        data |-> [total_surveys |-> total, successful_extractions |-> successful,
                  failed_extractions |-> total - successful,
                  details |-> results, survey_ids |-> survey_ids]]

\* the aggregate of extract_all_surveys_definitions and of extract_definitions' own loop
DefinitionsAggregate(survey_ids, results) ==
    LET successful == CountTrue(results, "success")
        total == Len(survey_ids)
    IN [success |-> TRUE,
        data |-> [total_surveys |-> total, successful_extractions |-> successful,
                  extracted_count |-> CountAction(results, "extracted"),
                  skipped_count |-> CountAction(results, "skipped"),
                  failed_extractions |-> total - successful,
                  details |-> results, survey_ids |-> survey_ids]]

\* the aggregate of transform_specific_surveys
TransformAggregate(survey_ids, results) ==
    LET successful == CountTrue(results, "overall_success")
        total == Len(survey_ids)
    IN [success |-> TRUE,
        data |-> [total_surveys |-> total, successful_transforms |-> successful,
                  failed_transforms |-> total - successful,
                  details |-> results, survey_ids |-> survey_ids]]

\* a variant of TransformEntry in which one success is enough
TransformEntryEither(mappings_result, responses_result) ==
    [mappings |-> mappings_result, responses |-> responses_result,
     overall_success |-> Get(mappings_result, "success", FALSE)
                         \/ Get(responses_result, "success", FALSE)]

\* the entry transform_specific_surveys stores for one survey
TransformEntry(mappings_result, responses_result) ==
    [mappings |-> mappings_result, responses |-> responses_result,
     overall_success |-> Get(mappings_result, "success", FALSE)
                         /\ Get(responses_result, "success", FALSE)]

\* a variant of CreateResponse that keeps the status code it is given
CreateResponseKeepingStatus(success, data, error, status_code) ==
    IF success
    THEN [status |-> status_code, body |-> [success |-> TRUE, timestamp |-> "now", data |-> data]]
    ELSE [status |-> status_code,
          body |-> [success |-> FALSE, timestamp |-> "now",
                    error |-> IF error = "" THEN "Unknown error" ELSE error]]

\* create_response(success, data, error, status_code); a falsy data (None, {}) is
\* <<>> and a falsy error (None, "") is ""
CreateResponse(success, data, error, status_code) ==
    IF success
    THEN [status |-> status_code, body |-> [success |-> TRUE, timestamp |-> "now", data |-> data]]
    ELSE [status |-> IF status_code = 200 THEN 400 ELSE status_code,
          body |-> [success |-> FALSE, timestamp |-> "now",
                    error |-> IF error = "" THEN "Unknown error" ELSE error]]

\* the tail of extract_data, extract_definitions and transform_and_load
BatchResponse(result) ==
    IF result.success THEN CreateResponse(TRUE, result.data, "", 200)
    ELSE CreateResponse(FALSE, <<>>, result.error, 500)

\* a variant of Resolve that enters the loop with whatever list it resolved
ResolveAnyList(survey_ids, organisation_id, specific) ==
    IF specific
    THEN {[go |-> TRUE, ids |-> survey_ids, ev |-> <<>>]}
    ELSE { IF r.raised
           THEN [go |-> FALSE, result |-> [success |-> FALSE, error |-> "exception"], ev |-> r.ev]
           ELSE [go |-> TRUE, ids |-> r.val, ev |-> r.ev]
           : r \in GetAllSurveyIdsFromDb(St, organisation_id) }

\* how a batch method resolves the identifiers it loops over: the list given, or
\* the active surveys of the store; it returns at once when there are none
Resolve(survey_ids, organisation_id, specific) ==
    IF specific
    THEN {IF Len(survey_ids) = 0
          THEN [go |-> FALSE, result |-> [success |-> FALSE, error |-> "No survey IDs provided"],
                ev |-> <<>>]
          ELSE [go |-> TRUE, ids |-> survey_ids, ev |-> <<>>]}
    ELSE { IF r.raised
           THEN [go |-> FALSE, result |-> [success |-> FALSE, error |-> "exception"], ev |-> r.ev]
           ELSE IF Len(r.val) = 0
           THEN [go |-> FALSE, result |-> [success |-> FALSE, error |-> "No surveys found in database"],
                 ev |-> r.ev]
           ELSE [go |-> TRUE, ids |-> r.val, ev |-> r.ev]
           : r \in GetAllSurveyIdsFromDb(St, organisation_id) }

Routes == {"extract_data", "extract_definitions", "transform_and_load", "full_pipeline"}
\* the batch methods called with a list of the caller's own
Direct == {"extract_specific_surveys", "transform_specific_surveys"}

FirstPhase(op) ==
    IF op \in {"extract_data", "full_pipeline", "extract_specific_surveys"} THEN "extract"
    ELSE IF op = "extract_definitions" THEN "definitions"
    ELSE "transform"

\* a handler passes a non-empty survey_ids to the *_specific_* method
Specific(r) == r.op \in Direct \/ Len(r.survey_ids) > 0

\* the batch method a phase of the request invokes
Method(r) ==
    IF r.phase = "extract"
    THEN (IF Specific(r) THEN "extract_specific_surveys" ELSE "extract_all_surveys")
    ELSE IF r.phase = "definitions"
    THEN (IF Specific(r) THEN "extract_definitions" ELSE "extract_all_surveys_definitions")
    ELSE (IF Specific(r) THEN "transform_specific_surveys" ELSE "transform_and_load_all")

\* parameters a request does not read are left at their defaults
Canonical(r) ==
    /\ (Specific(r) => r.organisation_id = "None")
    /\ (FirstPhase(r.op) # "transform" /\ r.op # "full_pipeline" => ~r.force_mappings_update)

\* the requests to a set of operations
Requests(ops) ==
    {r \in [op : ops, survey_ids : IdLists, organisation_id : {"None", "org-1"},
            force_mappings_update : BOOLEAN] : Canonical(r)}

\* no handler is running
Ready == req.pc = "done"

\* a fault is within the bound of the behaviour
Within(ev) == nfaults + NFaults(ev) <= MaxFaults

\* a handler, or a direct caller of a batch method, starts
Receive(r) ==
    /\ Ready
    /\ nreq < MaxRequests
    /\ req' = [op |-> r.op, survey_ids |-> r.survey_ids, organisation_id |-> r.organisation_id,
               force_mappings_update |-> r.force_mappings_update,
               phase |-> FirstPhase(r.op), pc |-> "resolve", calls |-> <<>>, returns |-> <<>>,
               ids |-> <<>>, i |-> 1, results |-> <<>>, stage |-> "mappings",
               mappings_result |-> <<>>, steps |-> <<>>]
    /\ pipeline' = IF r.op = "full_pipeline"
                   THEN [extract_phase |-> NoPipeline, transform_phase |-> NoPipeline,
                         overall_success |-> FALSE]
                   ELSE NoPipeline
    /\ out' = NoResponse
    /\ last' = NoCall
    /\ nreq' = nreq + 1
    /\ UNCHANGED <<surveys, responses, log, files, clock, nfaults>>

\* a variant of PhaseEnds in which full_pipeline goes on to the transform phase
\* whatever the extract phase returned
PhaseEndsGoingOn(r, result) ==
    LET done == [r EXCEPT !.pc = "done", !.returns = Append(@, result)] IN
    IF r.op = "full_pipeline" /\ r.phase = "extract"
    THEN /\ pipeline' = [pipeline EXCEPT !.extract_phase = result]
         /\ req' = [done EXCEPT !.phase = "transform", !.pc = "resolve", !.ids = <<>>, !.i = 1,
                                !.results = <<>>, !.steps = <<>>]
         /\ out' = out
    ELSE /\ pipeline' = IF r.op = "full_pipeline"
                        THEN [pipeline EXCEPT !.transform_phase = result,
                                              !.overall_success = result.success]
                        ELSE pipeline
         /\ req' = done
         /\ out' = [result |-> result]

\* a batch method returned `result`: the handler responds, or full_pipeline goes on
PhaseEnds(r, result) ==
    LET done == [r EXCEPT !.pc = "done", !.returns = Append(@, result)] IN
    IF r.op \in Direct
    THEN /\ req' = done
         /\ out' = [result |-> result]
         /\ pipeline' = pipeline
    ELSE IF r.op # "full_pipeline"
    THEN /\ req' = done
         /\ out' = BatchResponse(result)
         /\ pipeline' = pipeline
    ELSE IF r.phase = "extract"
    THEN /\ pipeline' = [pipeline EXCEPT !.extract_phase = result]
         /\ IF ~result.success
            THEN /\ req' = done
                 /\ out' = CreateResponse(FALSE, pipeline', "Extract phase failed", 200)
            ELSE /\ req' = [done EXCEPT !.phase = "transform", !.pc = "resolve", !.ids = <<>>,
                                        !.i = 1, !.results = <<>>, !.steps = <<>>]
                 /\ out' = out
    ELSE /\ pipeline' = [pipeline EXCEPT !.transform_phase = result,
                                         !.overall_success = result.success]
         /\ req' = done
         /\ out' = IF result.success
                   THEN CreateResponse(TRUE, pipeline', "", 200)
                   ELSE CreateResponse(FALSE, pipeline', "Transform and load phase failed", 200)

\* a batch method is entered and resolves the identifiers of its loop
ResolveIds ==
    /\ req.pc = "resolve"
    /\ LET r == [req EXCEPT !.calls = Append(@, Method(req))] IN
       \E x \in Resolve(req.survey_ids, req.organisation_id, Specific(req)) :
          /\ Within(x.ev)
          /\ nfaults' = nfaults + NFaults(x.ev)
          /\ IF x.go
             THEN /\ req' = [r EXCEPT !.pc = "loop", !.ids = x.ids]
                  /\ UNCHANGED <<pipeline, out>>
             ELSE PhaseEnds(r, x.result)
    /\ UNCHANGED <<surveys, responses, log, files, clock, last, nreq>>

InLoop(phase) ==
    /\ req.pc = "loop"
    /\ req.phase = phase
    /\ req.i <= Len(req.ids)

\* the record of a per-survey service call: arguments, store before and after,
\* returned dict, events
Call(fn, sid, args, o) ==
    [fn |-> fn, sid |-> sid, args |-> args, pre |-> St, post |-> o.st, res |-> o.res,
     ev |-> o.ev, now |-> clock]

\* the service call with outcome o is made
Makes(o) ==
    /\ Within(o.ev)
    /\ nfaults' = nfaults + NFaults(o.ev)
    /\ SetStore(o.st)

\* one iteration of the loop of extract_specific_surveys / extract_all_surveys
ExtractStep ==
    /\ InLoop("extract")
    /\ LET sid == req.ids[req.i] IN
       \E o \in ExtractSurveyResponses(St, sid, clock) :
          /\ Makes(o)
          /\ req' = [req EXCEPT !.results = Put(@, sid, Detail(o.res)), !.i = @ + 1,
                                !.steps = Append(@, <<"extract_survey_responses", sid>>)]
          /\ last' = Call("extract_survey_responses", sid, <<>>, o)
                        @@ [k \in DOMAIN o \ {"st", "res", "ev"} |-> o[k]]
    /\ UNCHANGED <<clock, pipeline, out, nreq>>

\* one iteration of the loop over extract_survey_definitions
DefinitionsStep ==
    /\ InLoop("definitions")
    /\ LET sid == req.ids[req.i] IN
       \E o \in ExtractSurveyDefinitions(St, sid) :
          /\ Makes(o)
          /\ req' = [req EXCEPT !.results = Put(@, sid, Detail(o.res)), !.i = @ + 1,
                                !.steps = Append(@, <<"extract_survey_definitions", sid>>)]
          /\ last' = Call("extract_survey_definitions", sid, <<>>, o)
    /\ UNCHANGED <<clock, pipeline, out, nreq>>

\* transform_specific_surveys, first half of an iteration: _process_survey_mappings
MappingsStep ==
    /\ InLoop("transform")
    /\ req.stage = "mappings"
    /\ LET sid == req.ids[req.i] IN
       \E o \in ProcessSurveyMappings(St, sid, req.force_mappings_update) :
          /\ Makes(o)
          /\ req' = [req EXCEPT !.stage = "responses", !.mappings_result = Detail(o.res),
                                !.steps = Append(@, <<"_process_survey_mappings", sid>>)]
          /\ last' = Call("_process_survey_mappings", sid, <<req.force_mappings_update>>, o)
                        @@ [k \in DOMAIN o \ {"st", "res", "ev"} |-> o[k]]
    /\ UNCHANGED <<clock, pipeline, out, nreq>>

\* second half: _process_survey_responses, then the entry of the survey is stored
ResponsesStep ==
    /\ InLoop("transform")
    /\ req.stage = "responses"
    /\ LET sid == req.ids[req.i] IN
       \E o \in ProcessSurveyResponses(St, sid) :
          /\ Makes(o)
          /\ req' = [req EXCEPT !.results = Put(@, sid, TransformEntry(req.mappings_result, Detail(o.res))),
                                !.i = @ + 1, !.stage = "mappings", !.mappings_result = <<>>,
                                !.steps = Append(@, <<"_process_survey_responses", sid>>)]
          /\ last' = Call("_process_survey_responses", sid, <<>>, o)
    /\ UNCHANGED <<clock, pipeline, out, nreq>>

\* the aggregate the batch method of a phase returns
Aggregate(phase, survey_ids, results) ==
    IF phase = "extract" THEN ExtractAggregate(survey_ids, results)
    ELSE IF phase = "definitions" THEN DefinitionsAggregate(survey_ids, results)
    ELSE TransformAggregate(survey_ids, results)

\* the loop is over: the batch method returns its aggregate
FinishLoop ==
    /\ req.pc = "loop"
    /\ req.i > Len(req.ids)
    /\ PhaseEnds(req, Aggregate(req.phase, req.ids, req.results))
    /\ UNCHANGED <<surveys, responses, log, files, clock, last, nreq, nfaults>>

\* a second of wall-clock time passes after an extraction and before the next (only
\* extract_survey_responses reads the clock; the clock starts at the first of them)
Tick ==
    /\ req.pc = "loop"
    /\ req.phase = "extract"
    /\ req.i > 1 \/ nreq > 1
    /\ clock < MaxClock
    /\ clock' = clock + 1
    /\ UNCHANGED <<surveys, responses, log, files, req, pipeline, out, last, nreq, nfaults>>

\* rows loaded by an earlier run
EarlierRows(uuid) ==
    LET data == TransformResponsesData(Frames.A)
    IN [i \in 1..Len(data) |-> ResponseRow(uuid, data[i])]

\* the store after an earlier extraction of a survey saved a frame at second ts
\* and, unless the log write failed, logged it
Extracted(st, sid, frame, ts, logged) ==
    LET written == [st EXCEPT !.files = WriteFile(@, FileName(sid, ts), CsvBytes(frame))]
        entry == [survey_id |-> sid, file_name |-> FileName(sid, ts),
                  file_hash |-> Sha256(CsvBytes(frame)), extracted_at |-> Len(st.log) + 1]
    IN IF logged THEN [written EXCEPT !.log = Append(@, entry)] ELSE written

\* the stores before the first request: the survey rows, the response rows of the
\* active surveys, no extraction yet
FreshStores ==
    { [surveys |-> sv,
       responses |-> [u \in Uuids |-> IF sv[SidOfUuid(u)].present /\ sv[SidOfUuid(u)].status = "active"
                                      THEN EarlierRows(u) ELSE <<>>],
       log |-> <<>>, files |-> {}]
      : sv \in {f \in [SurveyIds -> UNION {InitialRows(s) : s \in SurveyIds}] :
                   \A s \in SurveyIds : f[s] \in InitialRows(s)} }

\* stores with both surveys active in which earlier extractions have run
ExtractedStores ==
    UNION { LET one == Extracted(st, "SV_1", "A", -2, TRUE)
            IN { one,
                 Extracted(one, "SV_1", "A", -1, TRUE),
                 Extracted(one, "SV_1", "B", -1, TRUE),
                 Extracted(one, "SV_1", "A", -1, FALSE),
                 Extracted(one, "SV_12", "B", -1, TRUE) }
            : st \in {f \in FreshStores :
                        /\ f.surveys["SV_12"] = Row("SV_12", "active", FmSqlNull, "old name", "old type")
                        /\ f.surveys["SV_1"].present
                        /\ f.surveys["SV_1"].status = "active"
                        /\ f.surveys["SV_1"].field_mapping \in {FmSqlNull, FmObj(OldMapping)}} }

InitWith(stores) ==
    /\ \E st \in stores : /\ surveys = st.surveys
                          /\ responses = st.responses
                          /\ log = st.log
                          /\ files = st.files
    /\ clock = 0
    /\ req = Idle
    /\ pipeline = NoPipeline
    /\ out = NoResponse
    /\ last = NoCall
    /\ nreq = 0
    /\ nfaults = 0

Init == InitWith(FreshStores \cup ExtractedStores)

\* the extraction and the transform-and-load handlers, and the batch methods
\* called directly
Next ==
    \/ \E r \in Requests((Routes \ {"full_pipeline"}) \cup Direct) : Receive(r)
    \/ ResolveIds
    \/ ExtractStep
    \/ DefinitionsStep
    \/ MappingsStep
    \/ ResponsesStep
    \/ FinishLoop
    \/ Tick

Spec == Init /\ [][Next]_vars

----------------------------------------------------------------------------
(* The full pipeline *)

\* stores in which SV_12 is active and unmapped, and SV_1 is absent, or active and
\* unmapped or mapped; or SV_1 has been extracted once before
PipelineStores ==
    {st \in FreshStores :
        /\ st.surveys["SV_12"] = Row("SV_12", "active", FmSqlNull, "old name", "old type")
        /\ st.surveys["SV_1"] \in {AbsentRow} \cup
              {Row("SV_1", "active", fm, "old name", "old type") : fm \in {FmSqlNull, FmObj(OldMapping)}}}
    \cup {st \in ExtractedStores : Len(st.log) = 1 /\ st.surveys["SV_1"].field_mapping = FmSqlNull}

InitPipeline == InitWith(PipelineStores)

NextPipeline ==
    \/ \E r \in Requests({"full_pipeline"}) : Receive(r)
    \/ ResolveIds
    \/ ExtractStep
    \/ MappingsStep
    \/ ResponsesStep
    \/ FinishLoop
    \/ Tick

SpecPipeline == InitPipeline /\ [][NextPipeline]_vars

----------------------------------------------------------------------------
(* The Load Engine called on its own *)

\* arguments of the Load Engine's operations
MappingInputs ==
    {TransformSurveyMappings("any", Get(p, "SurveyName", ""), Get(p, "Questions", <<>>)).mappings_data
        : p \in DefinitionPayloads}
\* records without a usable end timestamp: the key is missing, the cell is an empty
\* string, a text that is no date, or empty in the export (NaN)
Untimed ==
    {[NPS |-> [t |-> "num", v |-> 9]]}
    \cup {[EndDate |-> end, NPS |-> [t |-> "num", v |-> 9]]
            : end \in {[t |-> "text", v |-> ""], [t |-> "text", v |-> "not a date"], NaN}}
Timed == [EndDate |-> Ts(2024, 1, 1, 20), NPS |-> [t |-> "num", v |-> 3]]

ResponseInputs ==
    {TransformResponsesData(Frames[c]) : c \in FrameIds} \cup {<<>>}
    \cup {<<record, Timed>> : record \in Untimed}

\* load_survey_mappings(survey_id, mappings_data, force_update) is called
CallLoadSurveyMappings(sid, mappings_data, force_update) ==
    /\ nreq < MaxRequests
    /\ \E o \in LoadSurveyMappings(St, sid, mappings_data, force_update) :
          /\ Makes(o)
          /\ last' = Call("load_survey_mappings", sid, <<mappings_data, force_update>>, o)
    /\ nreq' = nreq + 1
    /\ UNCHANGED <<clock, req, pipeline, out>>

\* load_survey_responses(survey_id, responses_data, replace_existing) is called
CallLoadSurveyResponses(sid, responses_data, replace_existing) ==
    /\ nreq < MaxRequests
    /\ \E o \in LoadSurveyResponses(St, sid, responses_data, replace_existing) :
          /\ Makes(o)
          /\ last' = Call("load_survey_responses", sid, <<responses_data, replace_existing>>, o)
    /\ nreq' = nreq + 1
    /\ UNCHANGED <<clock, req, pipeline, out>>

\* _has_existing_field_mapping(survey_id) of the Extraction Orchestrator and
\* check_survey_mappings_exist(survey_id) of the Load Engine are called on the
\* same store
CallMappingChecks(sid) ==
    /\ nreq < MaxRequests
    /\ \E has \in HasExistingFieldMapping(St, sid), exist \in CheckSurveyMappingsExist(St, sid) :
          /\ Within(has.ev \o exist.ev)
          /\ nfaults' = nfaults + NFaults(has.ev \o exist.ev)
          /\ last' = [fn |-> "mapping_checks", sid |-> sid, pre |-> St, post |-> St,
                      ev |-> has.ev \o exist.ev,
                      res |-> [has_existing_field_mapping |-> has.val,
                               check_survey_mappings_exist |-> exist.val]]
    /\ nreq' = nreq + 1
    /\ UNCHANGED <<surveys, responses, log, files, clock, req, pipeline, out>>

InitLoad == InitWith(FreshStores)

NextLoad ==
    \/ \E sid \in SurveyIds, md \in MappingInputs, force \in BOOLEAN :
          CallLoadSurveyMappings(sid, md, force)
    \/ \E sid \in SurveyIds, data \in ResponseInputs, replace \in BOOLEAN :
          CallLoadSurveyResponses(sid, data, replace)
    \/ \E sid \in SurveyIds : CallMappingChecks(sid)

SpecLoad == InitLoad /\ [][NextLoad]_vars

----------------------------------------------------------------------------
(* The derivations called on their own: the pure functions of the Response
   Transformation Engine, applied to inputs drawn from bounded sets *)

\* the rows of the source tables
TableRows ==
    {HeaderRow1,
     DataRow("R_1", Ts(2024, 3, 31, 17), [t |-> "num", v |-> 9]),
     DataRow("R_2", Ts(2024, 1, 1, 20), [t |-> "num", v |-> 3])}

\* the source tables (data frames) of up to MaxRows rows
Tables == UNION {[1..n -> TableRows] : n \in 0..MaxRows}

\* stores in which the latest extract file of SV_1 holds a frame of 0 to 4 rows
DeriveStores ==
    { Extracted(st, "SV_1", f, -1, TRUE)
      : f \in DOMAIN Frames,
        st \in {x \in FreshStores :
                  /\ x.surveys["SV_1"] = Row("SV_1", "active", FmSqlNull, "old name", "old type")
                  /\ x.surveys["SV_12"] = AbsentRow} }

\* stores in which both surveys have an extract file, that of SV_12 the later one,
\* and stores in which SV_1 has two
SharedStores ==
    {st \in ExtractedStores : Cardinality(st.files) = 2}

\* the record of a call of a pure function
PureCall(fn, args, res) ==
    [fn |-> fn, sid |-> "none", args |-> args, pre |-> St, post |-> St, res |-> res,
     ev |-> <<>>, now |-> clock]

\* _transform_responses_data(df) is called
CallTransformResponsesData(df) ==
    /\ nreq < MaxRequests
    /\ last' = PureCall("_transform_responses_data", <<df>>, TransformResponsesData(df))
    /\ nreq' = nreq + 1
    /\ UNCHANGED <<surveys, responses, log, files, clock, req, pipeline, out, nfaults>>

\* transform_survey_responses(survey_id) is called
CallTransformSurveyResponses(sid) ==
    /\ nreq < MaxRequests
    /\ \E o \in TransformSurveyResponses(St, sid) :
          /\ Makes(o)
          /\ last' = Call("transform_survey_responses", sid, <<>>, o)
                        @@ [k \in DOMAIN o \ {"st", "res", "ev"} |-> o[k]]
    /\ nreq' = nreq + 1
    /\ UNCHANGED <<clock, req, pipeline, out>>

\* end timestamps (UTC): the first and the last days of months of 31, 30, 29 and
\* 28 days, in a leap year and in a common year, at hours on both sides of 16:00
Timestamps ==
    {ts \in {Ts(y, mo, d, h) : y \in {2023, 2024}, mo \in {1, 2, 3, 4, 12},
                               d \in {1, 28, 29, 30, 31}, h \in {0, 15, 16, 17, 23}} :
        ts.d <= DaysInMonth(ts.y, ts.mo)}

\* a transformed record with an end timestamp, or with an EndDate cell that is no
\* timestamp
TimedRecords ==
    {[EndDate |-> end, NPS |-> [t |-> "num", v |-> 9]]
        : end \in Timestamps \cup {[t |-> "text", v |-> "not a date"]}}

\* the values a choice can have: a dict with a display label, with an empty one or
\* with none, or a bare string
ChoiceValues ==
    {[t |-> "dict", Display |-> "Inpatient"], [t |-> "dict", Display |-> "Outpatient"],
     [t |-> "dict", Display |-> ""], [t |-> "dict"], [t |-> "str", v |-> "South"]}
ChoiceKeys == {"1", "2", "3"}

\* the choices of a question: up to MaxChoices entries with distinct keys, in the
\* order of the payload
ChoiceDicts ==
    UNION { {c \in [1..n -> ChoiceKeys \X ChoiceValues] :
                \A i, j \in 1..n : c[i][1] = c[j][1] => i = j}
            : n \in 0..MaxChoices }

\* what the recode table of a question can hold for a choice key: no entry, a
\* number or null
NoEntry == [t |-> "absent"]
RecodeValues == {[t |-> "int", v |-> 1], [t |-> "int", v |-> 2], NoneCell}
RecodeTables(choices) ==
    { SelectSeq([i \in 1..Len(choices) |-> <<choices[i][1], f[choices[i][1]]>>],
                LAMBDA p : p[2] # NoEntry)
      : f \in [DictKeys(choices) -> RecodeValues \cup {NoEntry}] }

\* questions: a tag, choices and, for the tags that yield mappings, a recode table
\* or none
Questions ==
    {[DataExportTag |-> tag, Choices |-> c] :
        tag \in {"ServiceType", "Facility", "Ab_1", "Comment"}, c \in ChoiceDicts}
    \cup UNION { {[DataExportTag |-> tag, Choices |-> c, RecodeValues |-> r] :
                    tag \in {"Facility", "Ab_1"}, r \in RecodeTables(c)}
                 : c \in ChoiceDicts }

\* two questions that carry the same tag
QuestionsTwice ==
    << <<"QID1", [DataExportTag |-> "Facility",
                  Choices |-> << <<"1", [t |-> "dict", Display |-> "North"]>> >>]>>,
       <<"QID2", [DataExportTag |-> "Facility",
                  Choices |-> << <<"2", [t |-> "str", v |-> "South"]>> >>,
                  RecodeValues |-> << <<"2", [t |-> "str", v |-> "20"]>> >>]>> >>

\* the payloads derived more than once in a behaviour
RepeatPayloads == {QuestionsFull, QuestionsNoise, QuestionsTwice, <<>>}

\* the questions payloads handed to the Mapping Derivation Engine
QuestionPayloads == RepeatPayloads \cup {<< <<"QID1", q>> >> : q \in Questions}

\* the payloads the next derivation of a behaviour can be made on: any payload when
\* it is the first call, one of RepeatPayloads after derivations of these
NextPayloads ==
    LET derived == Get(out, "derived", <<>>) IN
    IF nreq >= MaxDerivations \/ nreq # Len(derived) THEN {}
    ELSE IF nreq = 0 THEN QuestionPayloads
    ELSE IF \A i \in 1..Len(derived) : derived[i].questions \in RepeatPayloads
    THEN RepeatPayloads
    ELSE {}

\* _extract_mappings_from_questions(questions) is called: on its own, or after
\* other derivations; the payload is only read
CallExtractMappingsFromQuestions(questions) ==
    LET derived == Get(out, "derived", <<>>)
        res == ExtractMappingsFromQuestions(questions)
    IN /\ nreq < MaxDerivations
       /\ last' = PureCall("_extract_mappings_from_questions", <<questions>>, res)
       /\ out' = [derived |-> Append(derived, [questions |-> questions, res |-> res,
                                               questions_after |-> questions])]
       /\ nreq' = nreq + 1
       /\ UNCHANGED <<surveys, responses, log, files, clock, req, pipeline, nfaults>>

\* a derivation of mappings is made
DeriveMappings == \E questions \in NextPayloads : CallExtractMappingsFromQuestions(questions)

\* the arguments create_response is called with: the default status code and the
\* codes the handlers pass; a payload or none; an error text or none
StatusCodes == {200, 400, 404, 500, 503}
ResponsePayloads == {<<>>, [total |-> 2, successful |-> 1, failed |-> 1]}
ErrorTexts == {"", "No surveys found in database", "Internal server error"}

\* create_response(success, data, error, status_code) is called
CallCreateResponse(success, data, error, status_code) ==
    /\ nreq < MaxRequests
    /\ last' = PureCall("create_response", <<success, data, error, status_code>>,
                        CreateResponse(success, data, error, status_code))
    /\ nreq' = nreq + 1
    /\ UNCHANGED <<surveys, responses, log, files, clock, req, pipeline, out, nfaults>>

InitDerive == InitWith(DeriveStores \cup SharedStores)

NextDerive ==
    \/ \E df \in Tables : CallTransformResponsesData(df)
    \/ \E sid \in SurveyIds : CallTransformSurveyResponses(sid)
    \/ \E record \in TimedRecords, replace \in BOOLEAN :
          CallLoadSurveyResponses("SV_1", <<record>>, replace)
    \/ DeriveMappings
    \/ \E success \in BOOLEAN, data \in ResponsePayloads, error \in ErrorTexts,
          status_code \in StatusCodes :
          CallCreateResponse(success, data, error, status_code)

SpecDerive == InitDerive /\ [][NextDerive]_vars

----------------------------------------------------------------------------
(* The polling loop of _wait_for_export_completion, one iteration at a step.
   last is the frame of the call: its configuration, its local `waited`, the
   replies of the status checks made so far, and how it ended. *)

\* EXPORT_POLL_INTERVAL (a float), in tenths of a second: 0, 0.1, 1.0, 2.0
PollIntervals == {0, 1, 10, 20}

\* the configurations of the loop
PollConfigs ==
    {[max_seconds |-> m, interval |-> i] : m \in 1..MaxCeiling, i \in PollIntervals}

\* the numbers n of additions of 0.1, among the multiples of ten up to a hundred,
\* whose sum in double precision is below n/10 (ten additions of 0.1 give
\* 0.9999999999999999, fifty give 4.999999999999998) and above it (twenty give
\* 2.0000000000000004)
ShortSums == {10, 50, 60, 70, 80, 90, 100}
LongSums == {20, 30, 40}

\* a variant of AddInterval that leaves waited as it is
AddNothing(waited, interval) == waited

\* waited += EXPORT_POLL_INTERVAL: the sum in tenths, and on which side of a whole
\* number of seconds the double lies (-1 below, 1 above, 0 on it or not
\* tracked); sums of 0, 1.0 and 2.0 are exact
AddInterval(waited, interval) ==
    LET tenths == waited.tenths + interval IN
    [tenths |-> tenths,
     err |-> IF interval # 1 THEN 0
             ELSE IF tenths \in ShortSums THEN -1
             ELSE IF tenths \in LongSums THEN 1 ELSE 0]

\* a variant of Below: waited <= EXPORT_POLL_MAX_SECONDS
BelowOrAt(waited, max_seconds) ==
    \/ waited.tenths < 10 * max_seconds
    \/ waited.tenths = 10 * max_seconds /\ waited.err <= 0

\* waited < EXPORT_POLL_MAX_SECONDS
Below(waited, max_seconds) ==
    \/ waited.tenths < 10 * max_seconds
    \/ waited.tenths = 10 * max_seconds /\ waited.err < 0

\* what a status check can give: the replies of StatusReplies, a complete reply
\* with another file id, and a complete reply that carries no file id
PollReplies ==
    StatusReplies \cup {[status |-> "complete", fileId |-> "file-2"], [status |-> "complete"]}

\* status checks of one loop in a behaviour: one more than any configuration with
\* a positive interval makes, so that only a loop with interval 0 is cut short
PollCap == 10 * MaxCeiling + 2

\* a variant of IterationEnd that polls on after a reply with status error
IterationEndPollingOnError(result) ==
    IF result.status = "raise" THEN [end |-> "raised"]
    ELSE IF result.status = "complete"
    THEN (IF "fileId" \in DOMAIN result THEN [end |-> "complete", fileId |-> result.fileId]
          ELSE [end |-> "raised"])
    ELSE IF result.status = "failed" THEN [end |-> "failed"]
    ELSE [end |-> "none"]

\* how one iteration ends for a reply: the function returns, raises, or sleeps
IterationEnd(result) ==
    IF result.status = "raise" THEN [end |-> "raised"]
    ELSE IF result.status = "complete"
    THEN (IF "fileId" \in DOMAIN result THEN [end |-> "complete", fileId |-> result.fileId]
          ELSE [end |-> "raised"])
    ELSE IF result.status \in {"failed", "error"} THEN [end |-> "failed"]
    ELSE [end |-> "none"]

Polling == last.fn = "_wait_for_export_completion" /\ last.pc = "while"

\* one iteration of the while loop: the status check, and the sleep when the
\* reply is not terminal
CheckExportStatus(result) ==
    /\ Polling
    /\ Below(last.waited, last.config.max_seconds)
    /\ Len(last.replies) < PollCap
    /\ last' = [last EXCEPT !.replies = Append(@, result),
                            !.res = IterationEnd(result),
                            !.pc = IF IterationEnd(result).end = "none" THEN "while" ELSE "done",
                            !.waited = IF IterationEnd(result).end = "none"
                                       THEN AddInterval(@, last.config.interval) ELSE @]
    /\ UNCHANGED <<surveys, responses, log, files, clock, req, pipeline, out, nreq, nfaults>>

\* the loop condition fails: TimeoutError
ExportTimesOut ==
    /\ Polling
    /\ ~Below(last.waited, last.config.max_seconds)
    /\ last' = [last EXCEPT !.res = [end |-> "timeout"], !.pc = "done"]
    /\ UNCHANGED <<surveys, responses, log, files, clock, req, pipeline, out, nreq, nfaults>>

InitPoll ==
    /\ \E st \in DeriveStores : /\ surveys = st.surveys
                                /\ responses = st.responses
                                /\ log = st.log
                                /\ files = st.files
    /\ clock = 0
    /\ req = Idle
    /\ pipeline = NoPipeline
    /\ out = NoResponse
    /\ \E config \in PollConfigs :
          last = [fn |-> "_wait_for_export_completion", config |-> config,
                  waited |-> [tenths |-> 0, err |-> 0], replies |-> <<>>,
                  pc |-> "while", res |-> [end |-> "none"]]
    /\ nreq = 0
    /\ nfaults = 0

NextPoll ==
    \/ \E result \in PollReplies : CheckExportStatus(result)
    \/ ExportTimesOut

SpecPoll == InitPoll /\ [][NextPoll]_vars

\* the loop runs on: no iteration that can be made is put off for ever
SpecPollFair == SpecPoll /\ WF_vars(NextPoll)

----------------------------------------------------------------------------
(* Properties *)

\* an event is among those of a call
InEv(e, ev) == \E i \in 1..Len(ev) : ev[i] = e

\* the last per-survey call was of fn
Called(fn) == last.fn = fn

TransformMethods == {"transform_specific_surveys", "transform_and_load_all"}

\* the extract phase of a full_pipeline request has returned success=false
ExtractPhaseFailed ==
    /\ req.op = "full_pipeline"
    /\ pipeline.extract_phase # NoPipeline
    /\ ~pipeline.extract_phase.success

\* C1: in full_pipeline, once the extract phase has returned success=false, no
\* transform batch method has been or is invoked for the request, transform_phase
\* stays unset, overall_success is false, and the handler has responded with failure.
C1_FailedExtractStopsPipeline ==
    ExtractPhaseFailed =>
        /\ \A i \in 1..Len(req.calls) : req.calls[i] \notin TransformMethods
        /\ pipeline.transform_phase = NoPipeline
        /\ pipeline.overall_success = FALSE
        /\ req.pc = "done"
        /\ out.body.success = FALSE

\* a full_pipeline request whose extract phase found no survey, answered with 400
C1_Witness ==
    /\ ExtractPhaseFailed
    /\ req.pc = "done"
    /\ pipeline.extract_phase.error = "No surveys found in database"
    /\ out.status = 400

\* the two most recent log entries of the survey of a call have equal hashes
EqualHashes(c) ==
    LET rows == LatestTwo(c.pre.log, c.sid)
    IN Len(rows) = 2 /\ rows[1].file_hash = rows[2].file_hash

\* the call returned the skipped-duplicate result and loaded nothing
SkippedDuplicate(c) ==
    /\ c.res.success
    /\ Get(c.res, "action", "") = "skipped_duplicate"
    /\ c.res.transformed_count = 0
    /\ c.res.responses_data = <<>>
    /\ ~InEv("load_survey_responses", c.ev)
    /\ c.post = c.pre

\* the call went on to transform the latest extract file of the survey
TransformedLatest(c) ==
    LET latest == FindLatestCsv(c.pre.files, c.sid) IN
    /\ Get(c.res, "action", "") # "skipped_duplicate"
    /\ IF latest = {} THEN ~c.res.success /\ c.res.error = "CSV file not found"
       ELSE /\ InEv("read_csv", c.ev)
            /\ ~InEv("fault:read_csv", c.ev) =>
                 \E f \in latest :
                    /\ c.res.responses_data = TransformResponsesData(Frames[f.content.frame])
                    /\ c.res.transformed_count = Len(c.res.responses_data)

C3_ForceRefetchesDefinitions ==
    (/\ Called("_process_survey_mappings")
     /\ HasFieldMappingRow(last.pre.surveys[last.sid])
     /\ NFaults(last.ev) = 0)
    => IF last.args[1]
       THEN /\ InEv("get_survey_questions", last.ev)
            /\ InEv("update_survey", last.ev)
       ELSE /\ ~InEv("get_survey_questions", last.ev)
            /\ last.res.success
            /\ last.res.action = "skipped"
            /\ last.post = last.pre

\* load_survey_mappings was called for a survey with a non-null, non-empty mapping
LoadsMapped(force_update) ==
    /\ Called("load_survey_mappings")
    /\ last.args[2] = force_update
    /\ HasFieldMappingRow(last.pre.surveys[last.sid])

\* C4 as stated: for a survey with a non-null, non-empty mapping,
\* load_survey_mappings with force_update=false leaves the row unchanged and
\* reports success with action "skipped".
C4_MappedSurveySkipped ==
    LoadsMapped(FALSE) =>
        /\ last.post.surveys[last.sid] = last.pre.surveys[last.sid]
        /\ last.res.success
        /\ last.res.action = "skipped"

\* C4, amended: the row (and the whole store) is unchanged in every case; the call
\* reports success with action "skipped" unless a lookup of the store raises, and
\* then it reports success=false with action "failed".
C4_MappedSurveySkippedUnlessLookupFails ==
    LoadsMapped(FALSE) =>
        /\ last.post = last.pre
        /\ ~InEv("update_survey", last.ev)
        /\ IF NFaults(last.ev) = 0
           THEN last.res.success /\ last.res.action = "skipped"
           ELSE ~last.res.success /\ last.res.action = "failed"

\* a mapped survey, new mappings offered without force: skipped, the row as it was
C4_Witness ==
    /\ LoadsMapped(FALSE)
    /\ last.res.action = "skipped"
    /\ last.res.success
    /\ last.args[1].mappings # <<>>
    /\ last.post.surveys[last.sid].field_mapping = FmObj(OldMapping)

\* load_survey_mappings was called with force_update=true
LoadsForced == Called("load_survey_mappings") /\ last.args[2] = TRUE

\* C5 as stated: load_survey_mappings with force_update=true always writes
\* field_mapping, name and service_type and never reports action "skipped" (calls in
\* which no collaborator fails).
C5_ForceAlwaysWrites ==
    (LoadsForced /\ NFaults(last.ev) = 0) =>
        /\ InEv("update_survey", last.ev)
        /\ last.post.surveys[last.sid] = UpdatedRow(last.pre.surveys[last.sid], last.args[1])
        /\ last.res.action # "skipped"

\* C5, amended: with force_update=true a survey that is in the store is never
\* skipped for having a mapping: the three columns are written and the action is
\* "updated" whether or not a mapping existed, unless the store fails, and then the
\* action is "failed" and nothing is written; a survey that is not in the store is
\* reported with success=false and action "skipped", and nothing is written.
C5_ForceWritesPresentSurvey ==
    LoadsForced =>
        LET before == last.pre.surveys[last.sid] IN
        IF NFaults(last.ev) > 0
        THEN ~last.res.success /\ last.res.action = "failed" /\ last.post = last.pre
        ELSE IF ~before.present
        THEN ~last.res.success /\ last.res.action = "skipped" /\ last.post = last.pre
        ELSE /\ last.res.success
             /\ last.res.action = "updated"
             /\ last.post.surveys[last.sid] = UpdatedRow(before, last.args[1])
             /\ last.post.surveys[last.sid].field_mapping = FmObj(last.args[1].mappings)
             /\ last.post.surveys[last.sid].name = last.args[1].survey_name
             /\ last.post.surveys[last.sid].service_type
                  = DictGet(last.args[1].key_fields, "ServiceType", "")

\* a mapped survey is rewritten under force: mapping, name and service type change
C5_Witness ==
    /\ LoadsMapped(TRUE)
    /\ last.res.action = "updated"
    /\ last.post.surveys[last.sid].field_mapping # last.pre.surveys[last.sid].field_mapping
    /\ last.post.surveys[last.sid].name = "Ward survey"
    /\ last.post.surveys[last.sid].service_type = "Inpatient"

\* successful + failed == total_surveys in the data of an aggregate
Balanced(data) ==
    IF "successful_transforms" \in DOMAIN data
    THEN data.successful_transforms + data.failed_transforms = data.total_surveys
    ELSE data.successful_extractions + data.failed_extractions = data.total_surveys

\* C6: every aggregate a batch method returns (extract_all_surveys,
\* extract_specific_surveys, extract_all_surveys_definitions, extract_definitions,
\* transform_specific_surveys, transform_and_load_all) has
\* successful + failed == total_surveys, with total_surveys the length of the list.
C6_AggregatesBalance ==
    \A i \in 1..Len(Get(req, "returns", <<>>)) :
        req.returns[i].success =>
            /\ Balanced(req.returns[i].data)
            /\ req.returns[i].data.total_surveys = Len(req.returns[i].data.survey_ids)

\* extract_all_surveys_definitions returned for two surveys, one of which failed
C6_Witness ==
    \E i \in 1..Len(Get(req, "returns", <<>>)) :
        /\ req.calls[i] = "extract_all_surveys_definitions"
        /\ req.returns[i].success
        /\ req.returns[i].data.total_surveys = 2
        /\ req.returns[i].data.successful_extractions = 1
        /\ req.returns[i].data.failed_extractions = 1

\* the log entries a call appended
Appended(c) == Len(c.post.log) - Len(c.pre.log)

\* the log before the call is a prefix of the log after it
LogKept(c) == SubSeq(c.post.log, 1, Len(c.pre.log)) = c.pre.log

\* the entry the call appended is for the survey and file of the call
LoggedOnce(c) ==
    /\ Appended(c) = 1
    /\ c.post.log[Len(c.post.log)].survey_id = c.sid
    /\ c.post.log[Len(c.post.log)].file_name = c.res.file_name

\* C7 as stated: a call of extract_survey_responses that returns success has
\* appended exactly one log entry for the survey, one that returns failure none.
C7_SuccessLogsOnce ==
    Called("extract_survey_responses") =>
        /\ LogKept(last)
        /\ IF last.res.success THEN LoggedOnce(last) ELSE Appended(last) = 0

\* C7, amended: a call that returns success has appended at most one entry: exactly
\* one when the log write went through, none when the write raised or the saved
\* file was missing; a call that returns failure has appended none.
C7_SuccessLogsAtMostOnce ==
    Called("extract_survey_responses") =>
        /\ LogKept(last)
        /\ IF ~last.res.success THEN Appended(last) = 0
           ELSE IF InEv("fault:log_insert", last.ev) \/ InEv("fault:file_removed", last.ev)
           THEN Appended(last) = 0
           ELSE LoggedOnce(last)

\* the status sequence in-progress, in-progress, complete: success and one entry
C7_Witness ==
    /\ Called("extract_survey_responses")
    /\ last.ev = <<"start_export", "check_status", "check_status", "check_status", "download",
                   "write_file", "log_insert">>
    /\ last.res.success
    /\ LoggedOnce(last)

\* the per-survey calls of a batch over ids once n surveys are done
RECURSIVE StepsOf(_, _, _)
StepsOf(phase, ids, n) ==
    IF n = 0 THEN <<>>
    ELSE StepsOf(phase, ids, n - 1) \o
         (IF phase = "extract" THEN << <<"extract_survey_responses", ids[n]>> >>
          ELSE IF phase = "definitions" THEN << <<"extract_survey_definitions", ids[n]>> >>
          ELSE << <<"_process_survey_mappings", ids[n]>>, <<"_process_survey_responses", ids[n]>> >>)

\* the per-survey calls the running batch has made are those of its list, in order
StepsInOrder ==
    req.steps = StepsOf(req.phase, req.ids, req.i - 1)
                \o (IF req.stage = "responses"
                    THEN << <<"_process_survey_mappings", req.ids[req.i]>> >> ELSE <<>>)

\* a per-survey result says whether it succeeded, and carries an error if not
Structured(result) ==
    /\ "success" \in DOMAIN result
    /\ result.success \in BOOLEAN
    /\ ~result.success => "error" \in DOMAIN result

\* the entry of a survey in the details of a batch
StructuredEntry(phase, entry) ==
    IF phase = "transform"
    THEN Structured(entry.mappings) /\ Structured(entry.responses)
    ELSE Structured(entry)

\* the batch has returned its aggregate
Returned == req.op # "idle" /\ req.pc = "done" /\ Len(req.returns) > 0 /\ req.returns[Len(req.returns)].success

\* C8: in a batch the surveys of the list are processed one after the other
\* whatever the earlier ones returned; every survey processed has an entry in the
\* details, a failing one as a result with success=false and an error; the batch
\* returns only after the whole list, with an entry for every id.
C8_FailureDoesNotBlockBatch ==
    req.op # "idle" =>
        /\ StepsInOrder
        /\ \A k \in 1..(req.i - 1) :
              /\ req.ids[k] \in DOMAIN req.results
              /\ StructuredEntry(req.phase, req.results[req.ids[k]])
        /\ Returned =>
              /\ req.i = Len(req.ids) + 1
              /\ req.returns[Len(req.returns)].data.details = req.results
              /\ DOMAIN req.results = {req.ids[k] : k \in 1..Len(req.ids)}

\* an extraction batch of two surveys returned: the first failed, the second did not
C8_Witness ==
    /\ Returned
    /\ req.phase = "extract"
    /\ Len(req.ids) = 2
    /\ req.ids[1] # req.ids[2]
    /\ ~req.results[req.ids[1]].success
    /\ req.results[req.ids[1]].error = "Failed to extract survey responses"
    /\ req.results[req.ids[2]].success

\* C9: in transform_specific_surveys every survey's mapping processing is followed
\* by its response processing, whatever the mapping processing returned, and the
\* survey's overall_success is true exactly when both results report success.
C9_ResponsesAlwaysAttempted ==
    (req.op # "idle" /\ req.phase = "transform") =>
        /\ StepsInOrder
        /\ (InLoop("transform") /\ req.stage = "responses") => ENABLED ResponsesStep
        /\ \A sid \in DOMAIN req.results :
              LET entry == req.results[sid] IN
              entry.overall_success = (entry.mappings.success /\ entry.responses.success)

\* the mapping processing of a survey failed and its responses were loaded all the same
C9_Witness ==
    /\ req.op # "idle"
    /\ req.phase = "transform"
    /\ \E sid \in DOMAIN req.results :
          /\ ~req.results[sid].mappings.success
          /\ req.results[sid].responses.success
          /\ ~req.results[sid].overall_success
    /\ Called("_process_survey_responses")
    /\ InEv("insert_responses", last.ev)

\* C10 as stated: load_survey_responses with replace_existing=true is atomic: after
\* the call the survey holds either the rows it held before, or the rows of all the
\* new records; the old rows are never gone with the new ones not persisted (calls
\* in which no collaborator raises).
C10_ReplaceIsAtomic ==
    (/\ Called("load_survey_responses")
     /\ last.args[2] = TRUE
     /\ last.pre.surveys[last.sid].present
     /\ NFaults(last.ev) = 0)
    => LET uuid == UuidOf[last.sid]
           data == last.args[1]
       IN \/ last.post.responses[uuid] = last.pre.responses[uuid]
          \/ /\ last.res.success
             /\ last.post.responses[uuid] = [i \in 1..Len(data) |-> ResponseRow(uuid, data[i])]


\* the rows _insert_survey_responses builds for a list of records
RowsOf(uuid, data) == [i \in 1..Len(data) |-> ResponseRow(uuid, data[i])]

\* the records of a list whose insert statement the store accepts
AcceptedOf(data) == SelectSeq(data, LAMBDA r : ExecuteInsert(r) = "ok")

\* C11 as stated: in load_survey_responses a record whose insertion fails does not
\* abort the batch: the call reports success, every other supplied record is
\* persisted, and inserted_count is the number of records whose insertion did not
\* fail, which is the number of rows the call persisted (calls in which no
\* collaborator raises).
C11_RowFailureSkipped ==
    (/\ Called("load_survey_responses")
     /\ last.pre.surveys[last.sid].present
     /\ NFaults(last.ev) = 0)
    => LET uuid == UuidOf[last.sid]
           good == AcceptedOf(last.args[1])
           kept == IF last.args[2] THEN <<>> ELSE last.pre.responses[uuid]
       IN /\ last.res.success
          /\ last.res.inserted_count = Len(good)
          /\ last.post.responses[uuid] = kept \o RowsOf(uuid, good)
          /\ Len(last.post.responses[uuid]) = Len(kept) + last.res.inserted_count


\* C12 as stated: when full_pipeline stops because the extract phase reported
\* failure, the response it returns reports failure and carries the result of the
\* extract phase as detail.
C12_FailureCarriesExtractDetail ==
    (ExtractPhaseFailed /\ req.pc = "done") =>
        /\ out.body.success = FALSE
        /\ "data" \in DOMAIN out.body
        /\ out.body.data.extract_phase = pipeline.extract_phase


\* a batch method has been entered and the list it resolves is empty: the list it
\* was given, or the active surveys of the store
ZeroResolved ==
    /\ req.pc = "resolve"
    /\ IF Specific(req) THEN Len(req.survey_ids) = 0
       ELSE ActiveIds(St, req.organisation_id) = {}

\* C13: a batch method that resolves zero survey ids returns success=false at
\* once: no per-survey call (and so no remote call) is made and the store is not
\* written.
C13_ZeroIdsFailFast ==
    [][ZeroResolved =>
          /\ req'.pc = "done"
          /\ req'.calls = Append(req.calls, Method(req))
          /\ Len(req'.returns) = Len(req.returns) + 1
          /\ ~req'.returns[Len(req'.returns)].success
          /\ req'.steps = <<>>
          /\ last' = last
          /\ UNCHANGED <<surveys, responses, log, files>>]_vars

\* extract_all_surveys_definitions found no active survey in a store whose only
\* survey is inactive, and returned "No surveys found in database"
C13_Witness ==
    /\ req.op = "extract_definitions"
    /\ req.pc = "done"
    /\ req.calls = <<"extract_all_surveys_definitions">>
    /\ req.returns = <<[success |-> FALSE, error |-> "No surveys found in database"]>>
    /\ surveys["SV_1"].present
    /\ req.steps = <<>>
    /\ out.status = 500


\* how often an event occurs among those of a call
CountEv(e, ev) == Cardinality({i \in 1..Len(ev) : ev[i] = e})

\* the survey of a call had, before the call, a field mapping that is a non-empty
\* JSON object
MappedBefore(c) ==
    LET row == c.pre.surveys[c.sid] IN
    /\ row.present
    /\ row.field_mapping.k = "obj"
    /\ Len(row.field_mapping.v) > 0

\* the call skipped the survey without calling the definitions endpoint
SkippedDefinitions(c) ==
    /\ c.res.success
    /\ c.res.action = "skipped"
    /\ CountEv("get_survey_questions", c.ev) = 0
    /\ c.post = c.pre

\* the call called the definitions endpoint once and, if that succeeded, returned
\* the fetched name and questions
FetchedDefinitionsOnce(c) ==
    /\ CountEv("get_survey_questions", c.ev) = 1
    /\ c.post = c.pre
    /\ IF InEv("fault:get_survey_questions", c.ev)
       THEN ~c.res.success /\ c.res.action = "failed"
       ELSE /\ c.res.success
            /\ c.res.action = "extracted"
            /\ \E survey_data \in RemoteDefinitions :
                  /\ c.res.survey_name = survey_data.SurveyName
                  /\ c.res.questions = survey_data.Questions
                  /\ c.res.questions_count = Len(survey_data.Questions)

\* C14 as stated: extract_survey_definitions for a survey whose field mapping is
\* non-null and non-empty returns success with action "skipped" and does not call
\* the definitions endpoint; otherwise it calls the endpoint exactly once and on
\* success returns action "extracted" with the fetched name and questions.
C14_MappedSkippedElseFetchedOnce ==
    Called("extract_survey_definitions") =>
        IF MappedBefore(last) THEN SkippedDefinitions(last) ELSE FetchedDefinitionsOnce(last)

\* C14, amended: the same, provided the query of the field mapping succeeds; when
\* that query raises, the survey is taken as unmapped and the endpoint is called
\* once even though a mapping is stored.
C14_MappedSkippedUnlessCheckFails ==
    Called("extract_survey_definitions") =>
        IF MappedBefore(last) /\ ~InEv("fault:has_existing_field_mapping", last.ev)
        THEN SkippedDefinitions(last)
        ELSE FetchedDefinitionsOnce(last)

\* a survey whose stored mapping is JSON null is not skipped: its definitions are
\* fetched
C14_Witness ==
    /\ Called("extract_survey_definitions")
    /\ last.pre.surveys[last.sid].present
    /\ last.pre.surveys[last.sid].field_mapping = FmJsonNull
    /\ last.ev = <<"get_survey_questions">>
    /\ last.res.action = "extracted"
    /\ last.res.survey_name = "Ward survey"


\* the records are the rows of the table from the n-th on, each cut down to some
\* of its columns, in the order of the table
RowsFrom(records, df, n) ==
    /\ Len(records) = IF Len(df) >= n THEN Len(df) - n + 1 ELSE 0
    /\ \A i \in 1..Len(records) :
          /\ DOMAIN records[i] \subseteq DOMAIN df[i + n - 1]
          /\ \A c \in DOMAIN records[i] : records[i][c] = df[i + n - 1][c]

\* C15: for a source table of N rows _transform_responses_data yields N-2 records
\* when N >= 2 and none when N < 2: the rows after the first two, in their order;
\* transform_survey_responses reports that number as transformed_count.
C15_DropsFirstTwoRows ==
    /\ Called("_transform_responses_data") =>
          LET df == last.args[1] IN
          /\ Len(last.res) = IF Len(df) >= 2 THEN Len(df) - 2 ELSE 0
          /\ RowsFrom(last.res, df, 3)
    /\ (/\ Called("transform_survey_responses")
        /\ last.res.success
        /\ Get(last.res, "action", "") # "skipped_duplicate") =>
          \E f \in FindLatestCsv(last.pre.files, last.sid) :
             LET df == Frames[f.content.frame] IN
             /\ last.res.total_records_in_csv = Len(df)
             /\ last.res.transformed_count = IF Len(df) >= 2 THEN Len(df) - 2 ELSE 0
             /\ last.res.transformed_count = Len(last.res.responses_data)
             /\ RowsFrom(last.res.responses_data, df, 3)

\* a table of four rows gave its third and fourth, which differ, in that order
C15_Witness ==
    /\ Called("_transform_responses_data")
    /\ Len(last.args[1]) = 4
    /\ Len(last.res) = 2
    /\ last.res[1].NPS = last.args[1][3].NPS
    /\ last.res[2].NPS = last.args[1][4].NPS
    /\ last.res[1] # last.res[2]
    /\ "ResponseId" \notin DOMAIN last.res[1]


\* the year and month of the instant eight hours after a timestamp: those of the
\* timestamp, unless it is at 16:00 or later on the last day of its month
PeriodAfterShift(ts) ==
    IF ts.h < 16 \/ ts.d < DaysInMonth(ts.y, ts.mo) THEN [year |-> ts.y, month |-> ts.mo]
    ELSE IF ts.mo = 12 THEN [year |-> ts.y + 1, month |-> 1]
    ELSE [year |-> ts.y, month |-> ts.mo + 1]

\* the rows a call of load_survey_responses added to the survey
NewRows(c) ==
    LET rows == c.post.responses[UuidOf[c.sid]]
        kept == IF c.args[2] THEN 0 ELSE Len(c.pre.responses[UuidOf[c.sid]])
    IN SubSeq(rows, kept + 1, Len(rows))

\* C16: the period stored for a record is the year and month of its end timestamp
\* shifted by +8 hours: when the shift crosses the end of the month (or year) the
\* later month (year) is stored; submitted_at keeps the timestamp as given.
C16_PeriodIsShiftedByEightHours ==
    (Called("load_survey_responses") /\ InEv("insert_responses", last.ev)) =>
        /\ Len(NewRows(last)) = Len(last.args[1])
        /\ \A i \in 1..Len(NewRows(last)) :
              LET row == NewRows(last)[i]
                  end == last.args[1][i].EndDate
              IN end.t = "ts" =>
                    /\ row.submitted_at = end
                    /\ row.period_year = [t |-> "num", v |-> PeriodAfterShift(end).year]
                    /\ row.period_month = [t |-> "num", v |-> PeriodAfterShift(end).month]

\* the record that ended at 2024-03-31 17:00 UTC is stored with period 2024, 4
C16_Witness ==
    /\ Called("load_survey_responses")
    /\ InEv("insert_responses", last.ev)
    /\ last.args[1] = <<[EndDate |-> Ts(2024, 3, 31, 17), NPS |-> [t |-> "num", v |-> 9]]>>
    /\ NewRows(last)[1].period_year.v = 2024
    /\ NewRows(last)[1].period_month.v = 4
    /\ NewRows(last)[1].submitted_at.mo = 3


\* the derivations of mappings made so far, in order
Derived == Get(out, "derived", <<>>)

ServiceTypeQuestions(questions) ==
    {i \in 1..Len(questions) :
        /\ Get(questions[i][2], "DataExportTag", "") = "ServiceType"
        /\ Len(Get(questions[i][2], "Choices", <<>>)) > 0}

\* the choices of the last such question of a payload
ServiceTypeChoices(questions) ==
    LET S == ServiceTypeQuestions(questions)
    IN questions[CHOOSE i \in S : \A j \in S : j <= i][2].Choices

\* the label as C18 states it: that of choice "1" when the key is present, else
\* that of the first choice
LabelOfOneElseFirst(choices) ==
    IF DictHas(choices, "1") THEN DisplayOf(DictGet(choices, "1", NoneCell))
    ELSE DisplayOf(choices[1][2])

\* label is the first non-empty display label of the choices, in their order, or
\* empty when every label is empty
IsFirstNonEmptyLabel(label, choices) ==
    IF \A i \in 1..Len(choices) : DisplayOf(choices[i][2]) = "" THEN label = ""
    ELSE \E i \in 1..Len(choices) :
            /\ DisplayOf(choices[i][2]) # ""
            /\ \A j \in 1..(i - 1) : DisplayOf(choices[j][2]) = ""
            /\ label = DisplayOf(choices[i][2])

\* a derivation was made on a payload with a ServiceType question that has choices
DerivedServiceType ==
    /\ Called("_extract_mappings_from_questions")
    /\ ServiceTypeQuestions(last.args[1]) # {}

MappingQuestions(questions) ==
    {i \in 1..Len(questions) :
        LET tag == Get(questions[i][2], "DataExportTag", "") IN
        /\ tag # "ServiceType"
        /\ tag \in allowed_keys_dict \/ \E p \in allowed_prefixes : StartsWith(tag, p)
        /\ Len(Get(questions[i][2], "Choices", <<>>)) > 0}

\* the mapping key of choice j as C19 states it: str() of the entry of the recode
\* table when there is one (str(None) is "None"), else the raw choice key
StatedKey(question, j) ==
    LET recode_values == Get(question, "RecodeValues", <<>>)
        choice_key == question.Choices[j][1]
        entry == DictGet(recode_values, choice_key, NoneCell)
    IN IF ~DictHas(recode_values, choice_key) THEN choice_key
       ELSE IF entry.t = "none" THEN "None" ELSE PyStr(entry)

\* the mapping key of choice j when a null entry counts as no entry
ResolvedKey(question, j) ==
    LET entry == DictGet(Get(question, "RecodeValues", <<>>), question.Choices[j][1], NoneCell)
    IN IF entry.t = "none" THEN question.Choices[j][1] ELSE PyStr(entry)

\* mappings[tag] of the latest derivation
DerivedMapping(question) == DictGet(last.res.mappings, question.DataExportTag, <<>>)

\* C19 as stated: for every allowed non-ServiceType question and every one of its
\* choices independently, the mapping key is the stringified recode value of the
\* choice when the recode table has an entry for it, the raw choice key otherwise,
\* and the value stored under that key is that choice's display label.
C19_EveryChoiceUnderItsKey ==
    Called("_extract_mappings_from_questions") =>
        \A i \in MappingQuestions(last.args[1]) :
            LET question == last.args[1][i][2] IN
            \A j \in 1..Len(question.Choices) :
                /\ DictHas(DerivedMapping(question), StatedKey(question, j))
                /\ DictGet(DerivedMapping(question), StatedKey(question, j), "")
                      = DisplayOf(question.Choices[j][2])

\* C19 (amended): each choice of an allowed non-ServiceType question resolves on its
\* own to a mapping key: the stringified recode value when the recode table holds a
\* non-null value for the choice, the raw choice key otherwise.  For the last
\* question of the payload that carries a tag, mappings[tag] has exactly these keys
\* and holds under each the display label of the last choice that resolves to it.
C19_LastChoiceUnderResolvedKey ==
    Called("_extract_mappings_from_questions") =>
        \A i \in MappingQuestions(last.args[1]) :
            LET questions == last.args[1]
                question == questions[i][2]
                n == Len(question.Choices)
            IN (\A k \in MappingQuestions(questions) :
                    questions[k][2].DataExportTag = question.DataExportTag => k <= i)
               => /\ DictKeys(DerivedMapping(question)) = {ResolvedKey(question, j) : j \in 1..n}
                  /\ \A j \in 1..n :
                        (\A l \in 1..n :
                            ResolvedKey(question, l) = ResolvedKey(question, j) => l <= j)
                        => DictGet(DerivedMapping(question), ResolvedKey(question, j), "")
                             = DisplayOf(question.Choices[j][2])

\* a question with a recode value for one choice and none for the other has been
\* derived: the first is keyed by its recode value, the second by its choice key
C19_Witness ==
    /\ Called("_extract_mappings_from_questions")
    /\ last.args[1] =
          << <<"QID1", [DataExportTag |-> "Facility",
                        Choices |-> << <<"1", [t |-> "dict", Display |-> "Inpatient"]>>,
                                       <<"3", [t |-> "dict", Display |-> "Outpatient"]>> >>,
                        RecodeValues |-> << <<"1", [t |-> "int", v |-> 2]>> >>]>> >>
    /\ last.res.mappings =
          << <<"Facility", << <<"2", "Inpatient">>, <<"3", "Outpatient">> >> >> >>
    /\ last.res.key_fields = <<>>

\* the latest call is an extraction that returned success and wrote its log entry
LoggedExtraction ==
    /\ Called("extract_survey_responses")
    /\ last.res.success
    /\ LoggedOnce(last)

\* the entry that call appended
LoggedEntry == last.post.log[Len(last.post.log)]

\* C20 as stated: the Extraction Log Entry written for a successful extraction
\* carries a file_hash equal to the SHA-256 of the content downloaded from the
\* remote platform for that export.
C20_HashOfDownloadedContent ==
    LoggedExtraction => LoggedEntry.file_hash = Sha256(last.file_content)

\* C20 (amended): the entry carries the SHA-256 of the bytes of the file saved in
\* the data directory under the entry's file_name: the table of the first member of
\* the downloaded archive as the service wrote it back as CSV.
C20_HashOfSavedFile ==
    LoggedExtraction =>
        \E f \in last.post.files :
            /\ f.name = LoggedEntry.file_name
            /\ f.content = CsvBytes(last.file_content.csv)
            /\ LoggedEntry.file_hash = Sha256(f.content)

\* the status sequence in-progress, in-progress, complete, then the download of an
\* archive of table B: one entry, with the hash of the CSV file written from B
C20_Witness ==
    /\ LoggedExtraction
    /\ last.ev = <<"start_export", "check_status", "check_status", "check_status", "download",
                   "write_file", "log_insert">>
    /\ last.file_content = [kind |-> "zip", csv |-> "B"]
    /\ LoggedEntry.file_hash = Sha256(CsvBytes("B"))
    /\ LoggedEntry.file_hash # Sha256(last.file_content)

\* the arguments of the latest call of create_response
BuiltResponse == Called("create_response")
GivenSuccess == last.args[1]
GivenStatus == last.args[4]

\* C21: every response built by create_response contains success and timestamp;
\* it contains data and no error when success is true, error and no data when
\* success is false; a failure response never has status 200: it has 400 when no
\* other code was given, else the code given.
C21_ResponseEnvelope ==
    BuiltResponse =>
        LET body == last.res.body IN
        /\ {"success", "timestamp"} \subseteq DOMAIN body
        /\ body.success = GivenSuccess
        /\ IF GivenSuccess
           THEN "data" \in DOMAIN body /\ "error" \notin DOMAIN body
           ELSE /\ "error" \in DOMAIN body /\ "data" \notin DOMAIN body
                /\ last.res.status # 200
                /\ last.res.status = IF GivenStatus = 200 THEN 400 ELSE GivenStatus

\* a failure built with the default status code, a payload and no error text
C21_Witness ==
    /\ BuiltResponse
    /\ last.args = <<FALSE, [total |-> 2, successful |-> 1, failed |-> 1], "", 200>>
    /\ last.res = [status |-> 400,
                   body |-> [success |-> FALSE, timestamp |-> "now", error |-> "Unknown error"]]

\* the frame of _wait_for_export_completion, and whether the call has ended
Waiting == last.fn = "_wait_for_export_completion"
WaitEnded == Waiting /\ last.pc = "done"
LastReply == last.replies[Len(last.replies)]

\* a reply that ends the export job
Terminal(result) == result.status \in {"complete", "failed", "error"}

\* the status checks before the last one all got a reply that is not terminal
NoPollAfterTerminal == \A i \in 1..(Len(last.replies) - 1) : ~Terminal(last.replies[i])

\* a file id is returned only for a last reply complete, and is that reply's; an
\* export-failed error is raised only for a last reply failed or error
FileIdOrExportFailed ==
    /\ last.res.end = "complete" =>
          /\ LastReply.status = "complete"
          /\ last.res.fileId = LastReply.fileId
          /\ \A i \in 1..Len(last.replies) : last.replies[i].status \notin {"failed", "error"}
    /\ last.res.end = "failed" => LastReply.status \in {"failed", "error"}

\* C22 as stated: whatever the replies, _wait_for_export_completion ends in exactly
\* one of three outcomes: it returns the file id of a reply complete, fails with an
\* export-failed error after a reply failed or error, or fails with a timeout; it
\* never polls again after a terminal reply.
C22_ThreeOutcomes ==
    Waiting =>
        /\ NoPollAfterTerminal
        /\ WaitEnded => /\ last.res.end \in {"complete", "failed", "timeout"}
                        /\ FileIdOrExportFailed

\* C22 (amended): there is a fourth outcome: the error of a status check that
\* raises (a request error, or a reply complete that carries no file id) is
\* re-raised as it is.  A timeout is raised only after replies that are all
\* non-terminal, once waited is no longer below the ceiling.
C22_FourOutcomes ==
    Waiting =>
        /\ NoPollAfterTerminal
        /\ WaitEnded =>
              /\ last.res.end \in {"complete", "failed", "timeout", "raised"}
              /\ FileIdOrExportFailed
              /\ last.res.end = "raised" =>
                    LastReply.status = "raise" \/ LastReply = [status |-> "complete"]
              /\ last.res.end = "timeout" =>
                    /\ \A i \in 1..Len(last.replies) : last.replies[i].status = "inProgress"
                    /\ last.waited.tenths >= 10 * last.config.max_seconds

\* the replies in-progress, in-progress, complete: the file id of the last reply
C22_Witness ==
    /\ WaitEnded
    /\ last.replies = <<[status |-> "inProgress"], [status |-> "inProgress"],
                        [status |-> "complete", fileId |-> "file-2"]>>
    /\ last.res = [end |-> "complete", fileId |-> "file-2"]

\* the accumulated polling time is above the ceiling, or is the ceiling or above
AboveCeiling ==
    \/ last.waited.tenths > 10 * last.config.max_seconds
    \/ last.waited.tenths = 10 * last.config.max_seconds /\ last.waited.err > 0
AtOrAboveCeiling ==
    \/ last.waited.tenths > 10 * last.config.max_seconds
    \/ last.waited.tenths = 10 * last.config.max_seconds /\ last.waited.err >= 0

\* waited is the interval times the number of sleeps, one after each reply that
\* did not end the call
WaitedIsMultiple ==
    last.waited.tenths =
        last.config.interval
          * Cardinality({i \in 1..Len(last.replies) : last.replies[i].status = "inProgress"})

\* C23 as stated: the export job goes to TIMED_OUT only when the accumulated polling
\* time, a multiple of the poll interval, exceeds EXPORT_POLL_MAX_SECONDS; as long
\* as it does not exceed the ceiling, the loop is not left by a timeout.
C23_TimeoutOnlyAboveCeiling ==
    Waiting =>
        /\ WaitedIsMultiple
        /\ last.res.end = "timeout" => AboveCeiling

\* C23 (amended): the job goes to TIMED_OUT when the accumulated polling time, a
\* multiple of the poll interval, has reached or exceeded the ceiling: from a
\* polling state with the time below the ceiling the next step is another status
\* check, and with the time at or above it the next step is the timeout.
C23_TimeoutFromCeilingOn ==
    /\ [](Waiting => /\ WaitedIsMultiple
                     /\ last.res.end = "timeout" => AtOrAboveCeiling)
    /\ [][Polling =>
            IF AtOrAboveCeiling
            THEN last'.res.end = "timeout" /\ last'.replies = last.replies
            ELSE Len(last'.replies) = Len(last.replies) + 1]_vars

\* ceiling 2 s, interval 1.0 s: two checks, then the timeout with waited = 2.0
C23_Witness ==
    /\ WaitEnded
    /\ last.config = [max_seconds |-> 2, interval |-> 10]
    /\ last.res.end = "timeout"
    /\ Len(last.replies) = 2
    /\ last.waited = [tenths |-> 20, err |-> 0]

\* ceil(EXPORT_POLL_MAX_SECONDS / EXPORT_POLL_INTERVAL) for a positive interval
CeilChecks ==
    (10 * last.config.max_seconds + last.config.interval - 1) \div last.config.interval

PositiveInterval == Waiting /\ last.config.interval > 0

\* C24 as stated: with a positive poll interval polling always terminates: whatever
\* the remote replies, at most ceil(EXPORT_POLL_MAX_SECONDS / EXPORT_POLL_INTERVAL)
\* status checks are made and the call then ends (complete, failed, a raising
\* check, or the timeout).
C24_EndsWithinCeilChecks ==
    /\ [](PositiveInterval => Len(last.replies) <= CeilChecks)
    /\ (PositiveInterval => <>WaitEnded)

\* C24 (amended): with a positive poll interval polling always terminates; at most
\* ceil(max / interval) status checks are made when the interval is a whole number
\* of seconds, and at most one more when it is not: the double that the additions
\* give can lie below the ceiling that their exact sum reaches.
C24_EndsWithinCeilChecksOrOneMore ==
    /\ [](PositiveInterval =>
            Len(last.replies) <= CeilChecks + (IF last.config.interval % 10 = 0 THEN 0 ELSE 1))
    /\ (PositiveInterval => <>WaitEnded)

\* ceiling 5 s, interval 2.0 s, a remote that answers in-progress three times:
\* ceil(5 / 2) checks, then the timeout
C24_Witness ==
    /\ WaitEnded
    /\ last.config = [max_seconds |-> 5, interval |-> 20]
    /\ last.replies = <<[status |-> "inProgress"], [status |-> "inProgress"],
                        [status |-> "inProgress"]>>
    /\ Len(last.replies) = CeilChecks
    /\ last.res.end = "timeout"

\* the steps of a call in the order they were made, the fault marks left out
Steps(ev) == SelectSeq(ev, LAMBDA e : ~IsFault(e))

\* the order of extract_survey_responses: one start, status checks, then at most
\* one download, one write of the file and one log entry, each only after the one
\* before it
InExtractOrder(steps) ==
    \E k \in 0..Len(steps) :
        \E tail \in {<<>>, <<"download">>, <<"download", "write_file">>,
                      <<"download", "write_file", "log_insert">>} :
            steps = (<<"start_export">> \o Checks(k)) \o tail

\* the download of the call went through
Downloaded(c) == InEv("download", c.ev) /\ ~InEv("fault:download", c.ev)

\* C25: within one extract_survey_responses call the steps come in the order
\* start_export (exactly once), status checks, download (exactly once, only after
\* a status check returned complete and with the file id of that reply), write of
\* the file, log entry; no file is written and no log entry appended unless the
\* download succeeded, and the log entry is appended only after the file was
\* written.
C25_ExtractStepsInOrder ==
    Called("extract_survey_responses") =>
        LET replies == last.remote.replies IN
        /\ InExtractOrder(Steps(last.ev))
        /\ CountEv("check_status", last.ev) = Len(replies)
        /\ \A i \in 1..(Len(replies) - 1) : replies[i].status = "inProgress"
        /\ InEv("download", last.ev) =>
              /\ Len(replies) > 0
              /\ replies[Len(replies)].status = "complete"
              /\ last.remote.file_id = replies[Len(replies)].fileId
        /\ ~Downloaded(last) =>
              /\ last.post.files = last.pre.files
              /\ last.post.log = last.pre.log
              /\ ~InEv("write_file", last.ev)
        /\ last.post.log # last.pre.log => InEv("write_file", last.ev)

\* in-progress, then complete with the second file id: that file is downloaded,
\* the table saved and the entry logged
C25_Witness ==
    /\ Called("extract_survey_responses")
    /\ last.remote = [replies |-> <<[status |-> "inProgress"],
                                    [status |-> "complete", fileId |-> "file-2"]>>,
                      file_id |-> "file-2"]
    /\ last.ev = <<"start_export", "check_status", "check_status", "download", "write_file",
                   "log_insert">>
    /\ last.post.log # last.pre.log

\* a remote call of the export failed: the start, a status check, or the download
RemoteFaults == {"fault:start_export", "fault:export_raised", "fault:download"}
RemoteCallFailed(c) == \E e \in RemoteFaults : InEv(e, c.ev)

\* C26: no remote call is retried: when start_export, a status check or the
\* download fails, extract_survey_responses makes no further remote call for the
\* export (the failed call is its last step, every call was made once) and returns
\* success=false with an error, with no file written and no log entry appended.
C26_NoRetryAfterRemoteFailure ==
    (Called("extract_survey_responses") /\ RemoteCallFailed(last)) =>
        /\ last.ev[Len(last.ev)] \in RemoteFaults
        /\ NFaults(last.ev) = 1
        /\ CountEv("start_export", last.ev) = 1
        /\ CountEv("check_status", last.ev) = Len(last.remote.replies)
        /\ CountEv("download", last.ev) <= 1
        /\ ~InEv("write_file", last.ev) /\ ~InEv("log_insert", last.ev)
        /\ last.res.success = FALSE
        /\ "error" \in DOMAIN last.res
        /\ last.post.files = last.pre.files
        /\ last.post.log = last.pre.log

\* the second status check raises: two checks, no download, a failure result
C26_Witness ==
    /\ Called("extract_survey_responses")
    /\ last.ev = <<"start_export", "check_status", "check_status", "fault:export_raised">>
    /\ last.remote.replies = <<[status |-> "inProgress"], [status |-> "raise"]>>
    /\ last.res.success = FALSE
    /\ last.post = last.pre

\* transform_survey_responses read an extract file
LoadedFile == Called("transform_survey_responses") /\ "csv_file" \in DOMAIN last

\* C27: the extract file transform_survey_responses loads for survey S was
\* generated by an extraction of S itself and has, among the files of S, the
\* maximal embedded timestamp; a file generated for another survey, one whose id
\* contains the id of S included, is never selected.
C27_LoadsOwnLatestFile ==
    LoadedFile =>
        /\ last.csv_file.survey = last.sid
        /\ \A f \in last.pre.files :
              f.name.survey = last.sid => f.name.ts <= last.csv_file.ts

\* the aggregates the batch methods of the request have returned
Aggregates == {req.returns[i].data : i \in {j \in 1..Len(req.returns) : req.returns[j].success}}

\* the counts of an aggregate and the flag of its entries, by kind of batch
OfTransform(data) == "failed_transforms" \in DOMAIN data
FailedCount(data) ==
    IF OfTransform(data) THEN data.failed_transforms ELSE data.failed_extractions
SuccessfulCount(data) ==
    IF OfTransform(data) THEN data.successful_transforms ELSE data.successful_extractions
Succeeded(data, k) ==
    IF OfTransform(data) THEN data.details[k].overall_success ELSE data.details[k].success

\* C28: in every batch aggregate the failed count is the number of entries of
\* details whose success (overall_success for transform) is false and the
\* successful count the number whose success is true, whatever the list of ids,
\* lists that repeat an id included.
C28_CountsMatchDetails ==
    req.op # "idle" =>
        \A data \in Aggregates :
            /\ FailedCount(data)
                 = Cardinality({k \in DOMAIN data.details : ~Succeeded(data, k)})
            /\ SuccessfulCount(data)
                 = Cardinality({k \in DOMAIN data.details : Succeeded(data, k)})

\* the record has no end timestamp that can be used: EndDate is missing, empty or
\* does not parse
NoEndDate(record) == Get(record, "EndDate", NoneCell).t # "ts"

\* no cell of the records other than EndDate is empty
OtherCellsFilled(data) ==
    \A i \in 1..Len(data) : \A c \in DOMAIN data[i] \ {"EndDate"} : data[i][c] # NaN

\* the record is among the rows the call added, with its full payload
InsertedAs(c, record) ==
    \E k \in 1..Len(NewRows(c)) : NewRows(c)[k].response_data = record

\* C29: for every record inserted by load_survey_responses, period_year and
\* period_month are both null whenever the EndDate of the record is missing,
\* empty or unparsable; such a record is still inserted with its full payload and
\* the other records are processed as well (calls in which the survey is found,
\* nothing raises and no other cell is empty).
C29_UntimedRecordsInsertedWithNullPeriod ==
    (/\ Called("load_survey_responses")
     /\ last.pre.surveys[last.sid].present
     /\ NFaults(last.ev) = 0
     /\ OtherCellsFilled(last.args[1]))
    => LET data == last.args[1] IN
       /\ \A k \in 1..Len(NewRows(last)) :
             NoEndDate(NewRows(last)[k].response_data) =>
                /\ NewRows(last)[k].period_year = NoneCell
                /\ NewRows(last)[k].period_month = NoneCell
       /\ (\E i \in 1..Len(data) : NoEndDate(data[i])) =>
             \A i \in 1..Len(data) : InsertedAs(last, data[i])

\* C30: the extraction log is append-only.  In every step of the extraction and
\* the transform-and-load operations the log before the step is a prefix of the
\* log after it, and the log grows only by one entry, in a step that is a call of
\* extract_survey_responses which downloaded the file, saved it and returned
\* success, the entry being for the survey and the file of that call.
C30_LogIsAppendOnly ==
    [][/\ Len(log') >= Len(log)
       /\ SubSeq(log', 1, Len(log)) = log
       /\ log' # log =>
             /\ Len(log') = Len(log) + 1
             /\ last'.fn = "extract_survey_responses"
             /\ last'.pre.log = log
             /\ last'.post.log = log'
             /\ Downloaded(last')
             /\ InEv("write_file", last'.ev)
             /\ last'.res.success
             /\ log'[Len(log')].survey_id = last'.sid
             /\ log'[Len(log')].file_name = last'.res.file_name]_vars

\* a survey that has an entry in the log is extracted again: the log holds the
\* earlier entries unchanged and one more entry for the survey
C30_Witness ==
    /\ Called("extract_survey_responses")
    /\ log = last.post.log
    /\ Appended(last) = 1
    /\ LogKept(last)
    /\ \E i \in 1..Len(last.pre.log) : last.pre.log[i].survey_id = last.sid
    /\ Downloaded(last)

\* the columns of a survey row that UPDATE surveys sets
MappingColumns == {"field_mapping", "name", "service_type"}

\* the two rows differ at most in the columns the update sets
SameButMapping(before, after) ==
    /\ DOMAIN after = DOMAIN before
    /\ \A c \in DOMAIN before \ MappingColumns : after[c] = before[c]

\* C31: in every step no survey row is inserted or deleted, and a survey row
\* changes only in a step that runs the update of load_survey_mappings for that
\* survey, and then only in field_mapping, name and service_type; extraction,
\* response transformation and load_survey_responses leave every row as it was.
C31_SurveysChangeOnlyInMappingUpdate ==
    [][/\ \A sid \in SurveyIds : surveys'[sid].present = surveys[sid].present
       /\ surveys' # surveys =>
             /\ last'.fn \in {"_process_survey_mappings", "load_survey_mappings"}
             /\ InEv("update_survey", last'.ev)
             /\ last'.pre.surveys = surveys
             /\ \A sid \in SurveyIds \ {last'.sid} : surveys'[sid] = surveys[sid]
             /\ SameButMapping(surveys[last'.sid], surveys'[last'.sid])]_vars

\* the mappings of a survey were processed and its row updated: the three columns
\* changed, and the responses of the survey were then loaded with the row kept
C31_Witness ==
    /\ Called("_process_survey_responses")
    /\ InEv("load_survey_responses", last.ev)
    /\ last.post.surveys = last.pre.surveys
    /\ surveys = last.post.surveys
    /\ \E i \in 1..Len(req.steps) : req.steps[i] = <<"_process_survey_mappings", last.sid>>
    /\ surveys[last.sid].present
    /\ surveys[last.sid].name \notin {"old name", ""}
    /\ surveys[last.sid].field_mapping \notin {FmSqlNull, FmJsonNull, FmObj(OldMapping)}

----------------------------------------------------------------------------
(* The connection and cursor scopes of src/app/config/database.py, one step
   of get_connection / get_cursor at a time.  last is the frame of the scope:
     used      connections checked out of the pool
     got       connections the scope took from the pool
     conn      the local conn of get_connection (0: None)
     yielded   the yield of get_connection the scope is suspended at (0: none)
     pending   statements executed in the open transaction of conn
     persisted statements committed to the store, as <<scope, statement>>
     ev        calls made on the pool and the connection, in order
     raised    what the with statement raised to its caller
     held      connections kept by a generator that did not stop            *)

\* the statements the body of a scope executes, and what it raises
Bodies == {<<>>, <<"INSERT">>, <<"DELETE", "INSERT">>}
BodyExceptions == {"none", "InterfaceError", "OperationalError", "ValueError"}

NoScope ==
    [fn |-> "get_cursor", pc |-> "idle", scope |-> 0, stmts |-> <<>>, exc |-> "none",
     used |-> {}, got |-> {}, conn |-> 0, yielded |-> 0, thrown |-> FALSE,
     next_conn |-> 1, pending |-> <<>>, persisted |-> {}, ev |-> <<>>, raised |-> "none",
     ran |-> FALSE, held |-> {}]

InScope(pc) == last.fn = "get_cursor" /\ last.pc = pc

ScopeUnchanged == UNCHANGED <<surveys, responses, log, files, clock, req, pipeline, out, nreq>>

\* a collaborator fails in this step
Faulty == nfaults < MaxFaults /\ nfaults' = nfaults + 1

\* the frame after pool.getconn() handed out a connection
GotConn(f, y) ==
    [f EXCEPT !.used = @ \cup {f.next_conn}, !.got = @ \cup {f.next_conn},
              !.conn = f.next_conn, !.next_conn = @ + 1,
              !.yielded = y, !.ev = Append(@, "getconn")]

\* the frame after pool.putconn(conn, close): a connection that is not checked
\* out is refused (PoolError, swallowed by both callers); an open transaction is
\* lost with the connection or rolled back by the pool
PutConn(f, close) ==
    IF f.conn \notin f.used THEN [f EXCEPT !.ev = Append(@, "putconn_refused")]
    ELSE [f EXCEPT !.used = @ \ {f.conn}, !.pending = <<>>,
                   !.ev = Append(@, IF close THEN "putconn_close" ELSE "putconn")]

\* the with statement is left: normally (raised = "none") or by an exception
Leaves(f, raised) == [f EXCEPT !.pc = "idle", !.raised = raised, !.yielded = 0]

\* with db_manager.get_cursor() as cursor: is reached with a body
EnterScope(stmts, exc) ==
    /\ InScope("idle")
    /\ last.scope < MaxScopes
    /\ last' = [last EXCEPT !.pc = "getconn", !.scope = @ + 1, !.stmts = stmts, !.exc = exc,
                            !.got = {}, !.conn = 0,
                            !.yielded = 0, !.thrown = FALSE, !.pending = <<>>, !.ev = <<>>,
                            !.raised = "none", !.ran = FALSE]
    /\ UNCHANGED nfaults
    /\ ScopeUnchanged

\* conn = self.connection_pool.getconn(): PoolError when the pool is exhausted
\* (except Exception with conn None: raised on)
GetConn ==
    /\ InScope("getconn")
    /\ last' = IF Cardinality(last.used) < PoolMax
               THEN [GotConn(last, 0) EXCEPT !.pc = "probe"]
               ELSE Leaves([last EXCEPT !.ev = Append(@, "fault:getconn")], "PoolError")
    /\ UNCHANGED nfaults
    /\ ScopeUnchanged

\* SELECT 1 on the connection: it passes and the scope is entered (first yield);
\* InterfaceError: the connection is given back closed and a reconnect follows;
\* another error: rollback, the connection is given back, the error is raised
Probe(outcome) ==
    /\ InScope("probe")
    /\ IF outcome = "ok" THEN UNCHANGED nfaults ELSE Faulty
    /\ last' = IF outcome = "ok"
               THEN [last EXCEPT !.pc = "body", !.yielded = 1, !.pending = <<"SELECT 1">>,
                                 !.ev = Append(@, "probe")]
               ELSE IF outcome = "InterfaceError"
               THEN [PutConn([last EXCEPT !.ev = Append(@, "fault:probe")], TRUE)
                        EXCEPT !.pc = "reconnect"]
               ELSE Leaves(PutConn([last EXCEPT !.ev = @ \o <<"fault:probe", "rollback">>,
                                                !.pending = <<>>], FALSE), outcome)
    /\ ScopeUnchanged

\* the body of get_cursor's with statement runs, and the scope is left: commit
\* when the body completed (a commit that raises is rolled back and raised on),
\* rollback when it raised.  Then get_connection resumes: at its first yield an
\* InterfaceError is caught and the connection is given back closed, to
\* reconnect; any other exception is rolled back and raised on; at its second
\* yield only the finally clause runs
RunBody(commits) ==
    /\ InScope("body")
    /\ commits \/ last.exc = "none"
    /\ IF commits THEN UNCHANGED nfaults ELSE Faulty
    /\ LET ran == [last EXCEPT !.ran = TRUE, !.pending = @ \o last.stmts,
                               !.ev = Append(@, "body")]
           exc == IF last.exc = "none" /\ ~commits THEN "OperationalError" ELSE last.exc
           committed ==
               [ran EXCEPT !.persisted = @ \cup {<<last.scope, ran.stmts[i]>> : i \in 1..Len(ran.stmts)},
                           !.pending = <<>>, !.ev = Append(@, "commit")]
           rolled ==
               [ran EXCEPT !.pending = <<>>,
                           !.ev = @ \o (IF last.exc = "none" THEN <<"commit", "fault:commit", "rollback">>
                                        ELSE <<"rollback">>)]
       IN last' = IF last.exc = "none" /\ commits THEN Leaves(PutConn(committed, FALSE), "none")
                  ELSE IF last.yielded = 2 THEN Leaves(PutConn(rolled, FALSE), exc)
                  ELSE IF exc = "InterfaceError"
                  THEN [PutConn(rolled, TRUE) EXCEPT !.pc = "reconnect", !.thrown = TRUE]
                  ELSE Leaves(PutConn([rolled EXCEPT !.ev = Append(@, "rollback")], FALSE), exc)
    /\ ScopeUnchanged

\* except psycopg2.InterfaceError: conn = self.connection_pool.getconn(); yield conn.
\* After a failed probe the scope is entered on the new connection.  After an
\* exception thrown in by the body the generator yields where it had to stop:
\* the with statement raises RuntimeError, and the new connection is given back
\* when the generator is closed, at once or later.  A getconn that raises leaves
\* conn as it was: the finally clause gives the closed connection back again
Reconnect(connects, closes) ==
    /\ InScope("reconnect")
    /\ closes \/ (connects /\ last.thrown)
    /\ IF connects THEN UNCHANGED nfaults ELSE Faulty
    /\ last' = IF ~connects
               THEN Leaves(PutConn([last EXCEPT !.ev = Append(@, "fault:getconn")], FALSE),
                           "OperationalError")
               ELSE IF ~last.thrown
               THEN [GotConn(last, 2) EXCEPT !.pc = "body"]
               ELSE IF closes
               THEN Leaves(PutConn(GotConn(last, 2), FALSE), "RuntimeError")
               ELSE Leaves([GotConn(last, 2) EXCEPT !.held = @ \cup {last.next_conn}],
                           "RuntimeError")
    /\ ScopeUnchanged

\* a generator that did not stop is finalised: its finally clause gives the
\* connection back
Release ==
    /\ last.fn = "get_cursor"
    /\ \E c \in last.held :
          last' = [last EXCEPT !.held = @ \ {c}, !.used = @ \ {c}]
    /\ UNCHANGED nfaults
    /\ ScopeUnchanged

InitScope ==
    /\ \E st \in DeriveStores : /\ surveys = st.surveys
                                /\ responses = st.responses
                                /\ log = st.log
                                /\ files = st.files
    /\ clock = 0
    /\ req = Idle
    /\ pipeline = NoPipeline
    /\ out = NoResponse
    /\ last = NoScope
    /\ nreq = 0
    /\ nfaults = 0

NextScope ==
    \/ \E stmts \in Bodies, exc \in BodyExceptions : EnterScope(stmts, exc)
    \/ GetConn
    \/ \E outcome \in {"ok", "InterfaceError", "OperationalError"} : Probe(outcome)
    \/ \E commits \in BOOLEAN : RunBody(commits)
    \/ \E connects \in BOOLEAN, closes \in BOOLEAN : Reconnect(connects, closes)
    \/ Release

SpecScope == InitScope /\ [][NextScope]_vars

\* a get_cursor scope has been left
ScopeEnded == InScope("idle") /\ last.scope > 0

\* the statements of the scope that are persisted
PersistedHere == {x \in last.persisted : x[1] = last.scope}

\* how often a call occurs in the events of the scope
Times(e, ev) == Cardinality({i \in 1..Len(ev) : ev[i] = e})

\* C32 as stated: a get_cursor scope whose body ran commits exactly when the body
\* completed without exception; when the body raised, the transaction was
\* rolled back, no statement of the scope is persisted and the caller gets the
\* exception the body raised.
C32_CommitOrRollbackAndReraise ==
    (ScopeEnded /\ last.ran) =>
        /\ InEv("commit", last.ev) <=> last.exc = "none"
        /\ last.exc # "none" =>
              /\ InEv("rollback", last.ev)
              /\ PersistedHere = {}
              /\ last.raised = last.exc

\* C33 as stated: a scope holds at most one connection of the pool at a time,
\* gives each connection it took back exactly once, and when it has ended none of
\* the connections it took is checked out.
C33_ConnectionsGivenBackOnce ==
    (last.fn = "get_cursor" /\ last.scope > 0) =>
        /\ Cardinality(last.got \cap last.used) <= 1
        /\ ~InEv("putconn_refused", last.ev)
        /\ ScopeEnded =>
              /\ last.got \cap last.used = {}
              /\ Times("putconn", last.ev) + Times("putconn_close", last.ev)
                    = Cardinality(last.got)

\* the latest extract file of a survey in a directory
OwnLatestFiles(fs, sid) ==
    LET own == {f \in fs : f.name.survey = sid}
    IN {f \in own : \A g \in own : g.name.ts <= f.name.ts}

\* the store holds the content of the file for the survey: the stored payloads are
\* records of the file, and every record of the file that the store accepts is
\* among them
HoldsContentOf(st, sid, file) ==
    LET data == TransformResponsesData(Frames[file.content.frame])
        records == {data[i] : i \in 1..Len(data)}
        rows == st.responses[UuidOf[sid]]
        stored == {rows[i].response_data : i \in 1..Len(rows)}
    IN /\ stored \subseteq records
       /\ \A record \in records : (\A c \in DOMAIN record : record[c] # NaN) => record \in stored

\* C34 as stated: whenever the transformation of a survey's responses reports
\* action skipped_duplicate, the store already holds the content of the latest
\* extract file of the survey.
C34_SkippedDuplicateIsLoaded ==
    (/\ Called("_process_survey_responses")
     /\ last.res.success
     /\ Get(last.res, "action", "") = "skipped_duplicate")
    => \A file \in OwnLatestFiles(last.pre.files, last.sid) :
          HoldsContentOf(last.pre, last.sid, file)

\* full_pipeline has set overall_success to true
ReportsOverallSuccess ==
    /\ "overall_success" \in DOMAIN pipeline
    /\ pipeline.overall_success

\* C35 as stated: full_pipeline reports overall_success=true only if every
\* requested survey was extracted successfully in phase 1 and has
\* overall_success=true in phase 2.
C35_OverallSuccessMeansAllSucceeded ==
    ReportsOverallSuccess =>
        \A i \in 1..Len(pipeline.extract_phase.data.survey_ids) :
            LET sid == pipeline.extract_phase.data.survey_ids[i] IN
            /\ pipeline.extract_phase.data.details[sid].success
            /\ pipeline.transform_phase.data.details[sid].overall_success

\* the survey of the latest call was not extracted in phase 1 of the pipeline
ExtractionFailedInPhaseOne ==
    /\ req.op = "full_pipeline"
    /\ req.phase = "transform"
    /\ "data" \in DOMAIN pipeline.extract_phase
    /\ last.sid \in DOMAIN pipeline.extract_phase.data.details
    /\ ~pipeline.extract_phase.data.details[last.sid].success

\* C36 as stated: in full_pipeline, for a survey whose extraction in phase 1
\* returned success=false, phase 2 neither deletes nor replaces the stored
\* responses of the survey.
C36_FailedExtractionKeepsResponses ==
    (Called("_process_survey_responses") /\ ExtractionFailedInPhaseOne) =>
        /\ ~InEv("delete_responses", last.ev)
        /\ ~InEv("insert_responses", last.ev)
        /\ last.post.responses = last.pre.responses

\* the mapping processing of the latest call obtained an empty questions payload
NoQuestionsProvided ==
    /\ Called("_process_survey_mappings")
    /\ "transform_result" \in DOMAIN last
    /\ Get(last.transform_result, "action", "") = "skipped"
    /\ Get(last.transform_result, "reason", "") = "no_questions_provided"

\* C37 as stated: when mapping processing obtains an empty questions payload, no
\* write is made to the survey row: field_mapping, name and service_type keep
\* their previous values.
C37_NoQuestionsNoWrite ==
    NoQuestionsProvided =>
        /\ ~InEv("update_survey", last.ev)
        /\ last.post.surveys[last.sid] = last.pre.surveys[last.sid]

\* C38 as stated: the two mapping-existence checks agree in every store state: for
\* every survey and every stored field_mapping (SQL NULL, JSON null, empty object,
\* non-empty object), _has_existing_field_mapping and check_survey_mappings_exist
\* return the same answer when their queries succeed.
C38_MappingChecksAgree ==
    (Called("mapping_checks") /\ NFaults(last.ev) = 0) =>
        last.res.has_existing_field_mapping = last.res.check_survey_mappings_exist

----------------------------------------------------------------------------
(* Two load_survey_responses(survey_id, responses_data, replace_existing=True)
   calls for one survey, made by two requests that are served at the same time.
   A step is one cursor scope of one call: the lookup of the surrogate id, the
   DELETE of _clear_survey_responses, the INSERTs of _insert_survey_responses;
   each scope commits on its own.  last holds the frames of the two calls. *)

Callers == {1, 2}

\* the records the two requests load
ConcurrentInputs ==
    {TransformResponsesData(Frames.A), <<Timed>>, <<[NPS |-> [t |-> "num", v |-> 9]], Timed>>}

\* the frame of a call that has not begun
Begun(data) == [pc |-> "lookup", data |-> data, uuid |-> "None", deleted_count |-> 0,
                res |-> [success |-> FALSE], ev |-> <<>>]

Loading(p, pc) == last.fn = "load_survey_responses" /\ "calls" \in DOMAIN last /\ last.calls[p].pc = pc

\* the call of p returns
CallReturns(frame, res, ev) == [frame EXCEPT !.pc = "done", !.res = res, !.ev = @ \o ev]

ConcurrentUnchanged == UNCHANGED <<clock, req, pipeline, out, nreq>>

\* survey_uuid = self._get_survey_uuid_by_qualtrics_id(survey_id)
LookupStep(p) ==
    /\ Loading(p, "lookup")
    /\ \E u \in GetSurveyUuidByQualtricsId(St, last.sid) :
          /\ Within(u.ev)
          /\ nfaults' = nfaults + NFaults(u.ev)
          /\ last' = [last EXCEPT !.calls[p] =
                IF u.raised THEN CallReturns(@, [success |-> FALSE, error |-> "exception"], u.ev)
                ELSE IF ~u.found
                THEN CallReturns(@, [success |-> FALSE, error |-> "not found in database"], u.ev)
                ELSE [@ EXCEPT !.pc = "clear", !.uuid = u.uuid]]
    /\ UNCHANGED <<surveys, responses, log, files>>
    /\ ConcurrentUnchanged

\* deleted_count = self._clear_survey_responses(survey_uuid)
ClearStep(p) ==
    /\ Loading(p, "clear")
    /\ \E c \in ClearSurveyResponses(St, last.calls[p].uuid) :
          /\ Within(c.ev)
          /\ nfaults' = nfaults + NFaults(c.ev)
          /\ SetStore(c.st)
          /\ last' = [last EXCEPT !.calls[p] =
                IF c.raised THEN CallReturns(@, [success |-> FALSE, error |-> "exception"], c.ev)
                ELSE [@ EXCEPT !.pc = "insert", !.deleted_count = c.val, !.ev = @ \o c.ev]]
    /\ ConcurrentUnchanged

\* inserted_count = self._insert_survey_responses(survey_uuid, responses_data)
InsertStep(p) ==
    /\ Loading(p, "insert")
    /\ \E i \in InsertSurveyResponses(St, last.calls[p].uuid, last.calls[p].data) :
          /\ Within(i.ev)
          /\ nfaults' = nfaults + NFaults(i.ev)
          /\ SetStore(i.st)
          /\ last' = [last EXCEPT !.calls[p] =
                IF i.raised THEN CallReturns(@, [success |-> FALSE, error |-> "exception"], i.ev)
                ELSE CallReturns(@, [success |-> TRUE, deleted_count |-> @.deleted_count,
                                  inserted_count |-> i.val,
                                  total_input_records |-> Len(@.data)], i.ev)]
    /\ ConcurrentUnchanged

InitConcurrent ==
    /\ \E st \in FreshStores : /\ surveys = st.surveys
                               /\ responses = st.responses
                               /\ log = st.log
                               /\ files = st.files
    /\ clock = 0
    /\ req = Idle
    /\ pipeline = NoPipeline
    /\ out = NoResponse
    /\ \E sid \in SurveyIds, first \in ConcurrentInputs, second \in ConcurrentInputs :
          last = [fn |-> "load_survey_responses", sid |-> sid,
                  calls |-> [p \in Callers |-> Begun(IF p = 1 THEN first ELSE second)]]
    /\ nreq = 0
    /\ nfaults = 0

NextConcurrent ==
    \/ \E p \in Callers : LookupStep(p)
    \/ \E p \in Callers : ClearStep(p)
    \/ \E p \in Callers : InsertStep(p)

SpecConcurrent == InitConcurrent /\ [][NextConcurrent]_vars

\* the rows a call stores for its records
RowsOfCall(p) ==
    [i \in 1..Len(last.calls[p].data) |-> ResponseRow(last.calls[p].uuid, last.calls[p].data[i])]

\* both calls have returned success and nothing failed on the way
BothLoaded ==
    /\ last.fn = "load_survey_responses"
    /\ "calls" \in DOMAIN last
    /\ \A p \in Callers : last.calls[p].pc = "done" /\ last.calls[p].res.success
    /\ nfaults = 0

\* C39 as stated: when two load_survey_responses(replace_existing=true) calls for
\* the same survey run at the same time, after both have completed the store
\* holds exactly the records of one of the two calls: not the records of both,
\* and not none.
C39_OneCallWins ==
    BothLoaded =>
        \E p \in Callers : responses[UuidOf[last.sid]] = RowsOfCall(p)

====
